---- MODULE Spec2Model ----
(***************************************************************************)
(* Model of the image batch converter (xyz696yan/converter).               *)
(*                                                                         *)
(* Part 1: the pure functions of the core                                  *)
(*   calculateDimensions        (resizer,   src/src/core/types.ts)         *)
(*   calculateCompressionRatio  (converter, src/unnamed/part_001)          *)
(*   generateNewFilename        (converter, src/unnamed/part_001)          *)
(*   getZipPath                 (zip,       src/unnamed/part_000)          *)
(*   calcCropSourceRect         (resizer,   src/src/core/types.ts)         *)
(*                                                                         *)
(* Numbers.  The source computes with IEEE doubles.  The model computes    *)
(* with exact rationals (a ratio is a pair <<numerator, denominator>>) and *)
(* Math.round(p/q) is floor(p/q + 1/2).  For every input inside the bounds *)
(* below (and inside the bounds raised by one) the double evaluation of    *)
(* the source's expressions yields the same integers as the exact one;     *)
(* outside them a double quotient may fall just below an exact .5 tie.     *)
(* calcCropSourceRect returns the doubles themselves, so there the model   *)
(* computes in IEEE doubles (see the section on doubles).                  *)
(*                                                                         *)
(* Strings are sequences of one-character strings.                         *)
(***************************************************************************)
EXTENDS Integers, Sequences, FiniteSets, TLC

VARIABLES
    pc,                   \* "start" before the function is applied, "done" after
    original,             \* calculateDimensions: original ImageDimensions
    target,               \* calculateDimensions: { width?, height? }
    fit,                  \* calculateDimensions: FitMode
    maintainAspectRatio,  \* calculateDimensions: flag
    newDimensions,        \* calculateDimensions: returned ImageDimensions
    originalSize,         \* calculateCompressionRatio: bytes before
    newSize,              \* calculateCompressionRatio: bytes after
    ratio,                \* calculateCompressionRatio: returned percentage
    originalName,         \* generateNewFilename: file name
    format,               \* generateNewFilename: OutputFormat
    newName,              \* generateNewFilename: returned name
    image,                \* getZipPath: the ConvertedImage (newName, relativePath?)
    zipPath,              \* getZipPath: returned entry path
    workerPixels,         \* worker processImage: output size and pixel transform
    mainPixels,           \* converter convertImage: output size and pixel transform
    cropSource,           \* calcCropSourceRect: srcW, srcH
    cropTarget,           \* calcCropSourceRect: targetW, targetH
    cropRect,             \* calcCropSourceRect: returned { sx, sy, sw, sh }
    files,                \* main.ts: state.files
    settings,             \* main.ts: state.settings
    currentSettings,      \* SettingsPanel.ts: currentSettings
    autofill,             \* handleFilesAdded: loadImage promises not yet settled
    isConverting,         \* main.ts: state.isConverting
    batch,                \* handleConvert: the array the for loop iterates
    idx,                  \* handleConvert: position of the loop in batch
    hpc,                  \* handleConvert: "idle", "load2x" or "convert"
    effectiveSettings,    \* handleConvert: effectiveSettings of the iteration
    conv,                 \* convertImageAsync: the running call and its await
    taskIdCounter,        \* WorkerManager.taskIdCounter
    tasks,                \* WorkerManager.tasks
    worker,               \* WorkerManager.worker: "null", "running", "crashed"
    inbox,                \* worker: convert requests not yet taken
    job,                  \* worker: the request in work and its await
    events,               \* every event dispatched to the Worker object, in order
    delivered,            \* number of events the manager has handled
    workerSupported,      \* typeof Worker !== "undefined"
    corrupt,              \* files whose image fails to load
    dropped,              \* number of files dropped so far
    settled,              \* history: outcomes of each task's promise
    callbacks,            \* history: progress values handleMessage passed on, per task
    handled,              \* history: tasks whose terminal message was handled
    posted,               \* history: ids of the requests posted to the worker
    revoked,              \* the object URLs passed to URL.revokeObjectURL
    created,              \* history: number of Worker objects created
    zipFile,              \* the entries of the last ZIP made: path -> image
    downloads             \* the images of the last download-all, in order

resizerVars   == <<original, target, fit, maintainAspectRatio, newDimensions>>
ratioVars     == <<originalSize, newSize, ratio>>
filenameVars  == <<originalName, format, newName>>
zipVars       == <<image, zipPath>>
pixelVars     == <<workerPixels, mainPixels>>
cropVars      == <<cropSource, cropTarget, cropRect>>
appVars ==
    <<files, settings, currentSettings, autofill, isConverting, batch, idx, hpc,
      effectiveSettings, conv, taskIdCounter, tasks, worker, inbox, job, events,
      delivered, workerSupported, corrupt, dropped, settled, callbacks, handled,
      posted, revoked, created, zipFile, downloads>>
vars == <<pc, resizerVars, ratioVars, filenameVars, zipVars, pixelVars, cropVars, appVars>>

----------------------------------------------------------------------------
(* Bounds *)

\* pixel extents 1..MaxDim are enumerated exhaustively
MaxDim == 5

\* the extents used by the scenarios of the test-suite (resizer.test.ts)
ExampleDims == {300, 500, 1000}

\* byte sizes 0..MaxSize are enumerated exhaustively
MaxSize == 12

\* the sizes of converter.test.ts, and 1001: a file that grew by 0.1 %
ExampleSizes == {100, 500, 1000, 1001, 1500}

\* file names have at most MaxNameLen characters
MaxNameLen == 4

\* relative paths of every length up to MaxPathLen are enumerated
MaxPathLen == 4

\* number of files dropped into the application
MaxFiles == 2

\* the sizes typed into the width and height inputs
UserDims == {3}

\* the characters of a file name: a letter, and the two characters the
\* pattern of generateNewFilename distinguishes
NameChars == {"a", ".", "/"}

----------------------------------------------------------------------------
(* JavaScript numbers *)

Abs(x) == IF x < 0 THEN -x ELSE x

\* Math.round(p / q) for q > 0: the nearest integer, a half rounds up
MathRound_floor(p, q) == p \div q
MathRound(p, q) == (2 * p + q) \div (2 * q)

\* a / b kept exact
Ratio(a, b) == <<a, b>>

\* r > s for ratios with positive denominators
RatioGT(r, s) == r[1] * s[2] > s[1] * r[2]

\* Math.round(x / r) and Math.round(x * r) for an integer x and a ratio r
RoundDiv(x, r) == MathRound(x * r[2], r[1])
RoundMul(x, r) == MathRound(x * r[1], r[2])

----------------------------------------------------------------------------
(* types.ts: FitMode, ImageDimensions *)

FitMode == {"contain", "cover", "fill"}

Dims == (1..MaxDim) \cup ExampleDims

ImageDimensions == [width : Dims, height : Dims]

\* { width?: number; height?: number }: a record that has a field or not
TargetDimensions == UNION {[D -> Dims] : D \in SUBSET {"width", "height"}}

Dimensions(w, h) == [width |-> w, height |-> h]

----------------------------------------------------------------------------
(* resizer: calculateDimensions *)

\* !target.f : the field is missing (undefined) or 0
Falsy(t, f) == f \notin DOMAIN t \/ t[f] = 0

\* target.f || dflt
OrElse(t, f, dflt) == IF Falsy(t, f) THEN dflt ELSE t[f]

\* fit === "contain" branch
ContainDimensions_inverted(orig, targetWidth, targetHeight) ==
    LET originalRatio == Ratio(orig.width, orig.height)
        targetRatio   == Ratio(targetWidth, targetHeight)
    IN  IF RatioGT(targetRatio, originalRatio)
        THEN Dimensions(targetWidth, RoundDiv(targetWidth, originalRatio))
        ELSE Dimensions(RoundMul(targetHeight, originalRatio), targetHeight)

ContainDimensions_swapped(orig, targetWidth, targetHeight) ==
    LET originalRatio == Ratio(orig.width, orig.height)
        targetRatio   == Ratio(targetWidth, targetHeight)
    IN  IF RatioGT(originalRatio, targetRatio)
        THEN Dimensions(targetWidth, RoundMul(targetWidth, originalRatio))
        ELSE Dimensions(RoundDiv(targetHeight, originalRatio), targetHeight)

ContainDimensions(orig, targetWidth, targetHeight) ==
    LET originalRatio == Ratio(orig.width, orig.height)
        targetRatio   == Ratio(targetWidth, targetHeight)
    IN  IF RatioGT(originalRatio, targetRatio)
        THEN \* original is wider, constrain by width
             Dimensions(targetWidth, RoundDiv(targetWidth, originalRatio))
        ELSE \* original is taller, constrain by height
             Dimensions(RoundMul(targetHeight, originalRatio), targetHeight)

\* fit === "cover" branch
CoverDimensions_asContain(orig, targetWidth, targetHeight) ==
    ContainDimensions(orig, targetWidth, targetHeight)

CoverDimensions(orig, targetWidth, targetHeight) ==
    LET originalRatio == Ratio(orig.width, orig.height)
        targetRatio   == Ratio(targetWidth, targetHeight)
    IN  IF RatioGT(originalRatio, targetRatio)
        THEN \* original is wider, constrain by height
             Dimensions(RoundMul(targetHeight, originalRatio), targetHeight)
        ELSE \* original is taller, constrain by width
             Dimensions(targetWidth, RoundDiv(targetWidth, originalRatio))

\* the dispatch on fit once the aspect ratio is to be maintained
FitDimensions_fillAsContain(orig, targetWidth, targetHeight, fitMode) ==
    IF fitMode = "cover"
    THEN CoverDimensions(orig, targetWidth, targetHeight)
    ELSE ContainDimensions(orig, targetWidth, targetHeight)

FitDimensions(orig, targetWidth, targetHeight, fitMode) ==
    IF fitMode = "contain"
    THEN ContainDimensions(orig, targetWidth, targetHeight)
    ELSE IF fitMode = "cover"
    THEN CoverDimensions(orig, targetWidth, targetHeight)
    ELSE \* fill with maintainAspectRatio - just use target dimensions
         Dimensions(targetWidth, targetHeight)

calculateDimensions_copyPaste(orig, tgt, fitMode, maintain) ==
    IF Falsy(tgt, "width") /\ Falsy(tgt, "height")
    THEN Dimensions(orig.width, orig.width)
    ELSE LET targetWidth  == OrElse(tgt, "width", orig.width)
             targetHeight == OrElse(tgt, "height", orig.height)
         IN  IF ~maintain
             THEN Dimensions(targetWidth, targetHeight)
             ELSE FitDimensions(orig, targetWidth, targetHeight, fitMode)

calculateDimensions_fillOnly(orig, tgt, fitMode, maintain) ==
    IF Falsy(tgt, "width") /\ Falsy(tgt, "height")
    THEN Dimensions(orig.width, orig.height)
    ELSE LET targetWidth  == OrElse(tgt, "width", orig.width)
             targetHeight == OrElse(tgt, "height", orig.height)
         IN  IF fitMode = "fill" /\ ~maintain
             THEN Dimensions(targetWidth, targetHeight)
             ELSE FitDimensions(orig, targetWidth, targetHeight, fitMode)

calculateDimensions(orig, tgt, fitMode, maintain) ==
    IF Falsy(tgt, "width") /\ Falsy(tgt, "height")
    THEN \* { ...original }
         Dimensions(orig.width, orig.height)
    ELSE LET targetWidth  == OrElse(tgt, "width", orig.width)
             targetHeight == OrElse(tgt, "height", orig.height)
         IN  IF ~maintain
             THEN Dimensions(targetWidth, targetHeight)
             ELSE FitDimensions(orig, targetWidth, targetHeight, fitMode)

----------------------------------------------------------------------------
(* converter: calculateCompressionRatio *)

Sizes == (0..MaxSize) \cup ExampleSizes

\* Math.round((1 - newSize / originalSize) * 100)
calculateCompressionRatio_noComplement(origSize, nSize) ==
    IF origSize = 0 THEN 0
    ELSE MathRound(100 * nSize, origSize)

calculateCompressionRatio(origSize, nSize) ==
    IF origSize = 0 THEN 0
    ELSE MathRound(100 * (origSize - nSize), origSize)

----------------------------------------------------------------------------
(* converter: generateNewFilename *)

OutputFormat == {"webp", "png", "jpeg"}

\* types.ts: FORMAT_EXTENSIONS
FORMAT_EXTENSIONS ==
    [webp |-> <<".", "w", "e", "b", "p">>,
     png  |-> <<".", "p", "n", "g">>,
     jpeg |-> <<".", "j", "p", "g">>]

Names == UNION {[1..k -> NameChars] : k \in 0..MaxNameLen}

\* /\.[^/.]+$/ matches s from position i to the end of s
MatchesAt_star(s, i) ==
    /\ s[i] = "."
    /\ \A j \in (i + 1)..Len(s) : s[j] \notin {"/", "."}

MatchesAt(s, i) ==
    /\ s[i] = "."
    /\ i < Len(s)
    /\ \A j \in (i + 1)..Len(s) : s[j] \notin {"/", "."}

\* originalName.replace(/\.[^/.]+$/, ""): the leftmost match is removed
StripExtension(s) ==
    IF \E i \in 1..Len(s) : MatchesAt(s, i)
    THEN LET first == CHOOSE i \in 1..Len(s) :
                          /\ MatchesAt(s, i)
                          /\ \A j \in 1..(i - 1) : ~MatchesAt(s, j)
         IN  SubSeq(s, 1, first - 1)
    ELSE s

generateNewFilename(name, fmt) ==
    LET baseName == StripExtension(name)
    IN  baseName \o FORMAT_EXTENSIONS[fmt]

----------------------------------------------------------------------------
(* The application: Task Orchestrator (main.ts, src/unnamed/part_004),     *)
(* Conversion Task Runner (workerManager, src/src/core/types.ts), worker   *)
(* and main-thread conversion (src/unnamed/part_001).                      *)
(*                                                                         *)
(* The main thread runs one handler or promise continuation at a time, to  *)
(* its next await; an action is one such run.  The worker is a second      *)
(* thread; its messages reach the main thread in the order it posted them. *)
(* Of ConversionOptions the model keeps width, height and generate2x; the  *)
(* image of every file has the dimensions NaturalDimensions.               *)

\* { ...a, ...b }
Spread(a, b) ==
    [k \in DOMAIN a \cup DOMAIN b |-> IF k \in DOMAIN b THEN b[k] ELSE a[k]]

\* a with the fields ks set to undefined
Without(a, ks) == [k \in DOMAIN a \ ks |-> a[k]]

\* img.naturalWidth, img.naturalHeight of a decoded file
NaturalDimensions == Dimensions(4, 2)

\* part_004: the initial state.settings
InitialSettings == [generate2x |-> FALSE]

\* SettingsPanel.ts: DEFAULT_SETTINGS
DEFAULT_SETTINGS == <<>>

\* DropZone.ts: generateId() for the n-th file; `${id}-2x` adds one suffix
FileId(n) == [base |-> n, x2 |-> 0]
VariantId(id) == [base |-> id.base, x2 |-> id.x2 + 1]

\* DropZone.ts: URL.createObjectURL(item.file) for the n-th file; every
\* call returns a new URL
ObjectUrl(n) == n

\* DropZone.ts: processFiles, the record of the n-th file
NewImageFile(n) ==
    [file |-> n, id |-> FileId(n), preview |-> ObjectUrl(n), status |-> "pending",
     progress |-> 0]

\* file.name of the n-th file: one with an extension, one without, one
\* with two dots
FileName(n) ==
    CASE n = 1 -> <<"i", "m", "g", ".", "p", "n", "g">>
      [] n = 2 -> <<"i", "m", "g">>
      [] OTHER -> <<"i", ".", "m", ".", "p", "n", "g">>

\* s.lastIndexOf(c), counted from 1; 0 when c does not occur
lastIndexOf(s, c) ==
    IF \E i \in 1..Len(s) : s[i] = c
    THEN CHOOSE i \in 1..Len(s) : s[i] = c /\ \A j \in (i + 1)..Len(s) : s[j] # c
    ELSE 0

At2x == <<"@", "2", "x">>

\* part_000: getZipPath
PathChars == {"d", "/", "\\"}

RelativePaths == UNION {[1..k -> PathChars] : k \in 0..MaxPathLen}

ZipNames == {<<"n">>, <<"n", ".", "w">>}

\* the ConvertedImage values getZipPath is applied to: relativePath is optional
ZipImages ==
    [newName : ZipNames] \cup [newName : ZipNames, relativePath : RelativePaths]

\* s.replace(/\\/g, "/")
ReplaceBackslashes(s) == [i \in 1..Len(s) |-> IF s[i] = "\\" THEN "/" ELSE s[i]]

\* s.replace(/^\/+/, "")
RECURSIVE StripLeadingSlashes(_)
StripLeadingSlashes(s) ==
    IF s # <<>> /\ Head(s) = "/" THEN StripLeadingSlashes(Tail(s)) ELSE s

getZipPath_rawPath(img) ==
    IF "relativePath" \notin DOMAIN img \/ img.relativePath = <<>>
    THEN img.newName
    ELSE LET normalized == StripLeadingSlashes(img.relativePath)
             lastSlash == lastIndexOf(normalized, "/")
         IN  IF lastSlash = 0
             THEN img.newName
             ELSE SubSeq(normalized, 1, lastSlash) \o img.newName

getZipPath(img) ==
    IF "relativePath" \notin DOMAIN img \/ img.relativePath = <<>>
    THEN img.newName
    ELSE LET normalized == StripLeadingSlashes(ReplaceBackslashes(img.relativePath))
             lastSlash == lastIndexOf(normalized, "/")
         IN  IF lastSlash = 0
             THEN img.newName
             ELSE SubSeq(normalized, 1, lastSlash) \o img.newName

ZipIdle == image = [newName |-> <<>>] /\ zipPath = <<>>

NoPixels == [transform |-> "idle"]

PixelsIdle == workerPixels = NoPixels /\ mainPixels = NoPixels

----------------------------------------------------------------------------
(* IEEE 754 doubles for calcCropSourceRect.  A natural number of any size  *)
(* is the sequence of its digits to the base 2^27, least significant       *)
(* first, without leading zeros.  A double other than zero is a record     *)
(* [neg, n, k] with the value (-1)^neg * n / 2^k and 2^52 <= n < 2^53;     *)
(* every operation returns the exact result rounded to nearest, ties to    *)
(* even.  The extents are far from overflow and from subnormal numbers.    *)

Base == 134217728

Two52 == <<0, 33554432>>
Two53 == <<0, 67108864>>

RECURSIVE BTrim(_)
BTrim(a) == IF a # <<>> /\ a[Len(a)] = 0 THEN BTrim(SubSeq(a, 1, Len(a) - 1)) ELSE a

Limb(a, i) == IF 1 <= i /\ i <= Len(a) THEN a[i] ELSE 0

RECURSIVE AddFrom(_, _, _, _)
AddFrom(a, b, i, carry) ==
    IF i > Len(a) /\ i > Len(b)
    THEN (IF carry = 1 THEN <<1>> ELSE <<>>)
    ELSE <<(Limb(a, i) + Limb(b, i) + carry) % Base>>
             \o AddFrom(a, b, i + 1, (Limb(a, i) + Limb(b, i) + carry) \div Base)

BAdd(a, b) == AddFrom(a, b, 1, 0)

\* a - b for a >= b
RECURSIVE SubFrom(_, _, _, _)
SubFrom(a, b, i, borrow) ==
    IF i > Len(a)
    THEN <<>>
    ELSE <<(Base + Limb(a, i) - Limb(b, i) - borrow) % Base>>
             \o SubFrom(a, b, i + 1, IF Limb(a, i) - Limb(b, i) - borrow < 0 THEN 1 ELSE 0)

BSub(a, b) == BTrim(SubFrom(a, b, 1, 0))

\* -1, 0 or 1 as a < b, a = b or a > b
BCmp(a, b) ==
    IF Len(a) # Len(b)
    THEN (IF Len(a) < Len(b) THEN -1 ELSE 1)
    ELSE IF a = b
         THEN 0
         ELSE LET top == CHOOSE i \in 1..Len(a) :
                            a[i] # b[i] /\ \A j \in (i + 1)..Len(a) : a[j] = b[j]
              IN  IF a[top] < b[top] THEN -1 ELSE 1

BDbl(a) == BAdd(a, a)

BOdd(a) == a # <<>> /\ a[1] % 2 = 1

Pow2(d) == 2 ^ d

\* the number of binary digits of a
BitLen(a) ==
    IF a = <<>>
    THEN 0
    ELSE 27 * (Len(a) - 1)
             + (CHOOSE b \in 1..27 : Pow2(b - 1) <= a[Len(a)] /\ a[Len(a)] < Pow2(b))

\* a * 2^d
BShl(a, d) ==
    IF a = <<>> \/ d <= 0
    THEN a
    ELSE LET b == [i \in 1..(d \div 27) |-> 0] \o a
             e == d % 27
         IN  BTrim([i \in 1..(Len(b) + 1) |->
                       (Limb(b, i) % Pow2(27 - e)) * Pow2(e)
                           + (Limb(b, i - 1) \div Pow2(27 - e))])

\* floor(a / 2^d)
BShr(a, d) ==
    IF d <= 0
    THEN a
    ELSE LET b == SubSeq(a, (d \div 27) + 1, Len(a))
             e == d % 27
         IN  BTrim([i \in 1..Len(b) |->
                       (b[i] \div Pow2(e)) + ((Limb(b, i + 1) % Pow2(e)) * Pow2(27 - e))])

Zero == [neg |-> FALSE, n |-> <<>>, k |-> 0]

\* t with its last s binary digits rounded away, to nearest, ties to even;
\* sticky tells that the exact value lies above t
Rounded(t, s, sticky) ==
    LET q == BShr(t, s)
        c == BCmp(BSub(t, BShl(q, s)), BShl(<<1>>, s - 1))
    IN  IF c > 0 \/ (c = 0 /\ (sticky \/ BOdd(q))) THEN BAdd(q, <<1>>) ELSE q

\* the double nearest to the value t / 2^k or, with sticky, to a value
\* strictly between t / 2^k and (t + 1) / 2^k
RoundToDouble(neg, t, k, sticky) ==
    IF t = <<>>
    THEN Zero
    ELSE IF BitLen(t) <= 53
         THEN [neg |-> neg, n |-> BShl(t, 53 - BitLen(t)), k |-> k + 53 - BitLen(t)]
         ELSE IF Rounded(t, BitLen(t) - 53, sticky) = Two53
              THEN [neg |-> neg, n |-> Two52, k |-> k - (BitLen(t) - 53) - 1]
              ELSE [neg |-> neg, n |-> Rounded(t, BitLen(t) - 53, sticky),
                    k |-> k - (BitLen(t) - 53)]

\* an integer as a double
ToDouble(x) == RoundToDouble(x < 0, IF x = 0 THEN <<>> ELSE <<IF x < 0 THEN -x ELSE x>>, 0, FALSE)

\* count more binary digits of the quotient by d: st.q holds the digits
\* found so far, st.r the remainder (st.r < d)
RECURSIVE DivDigits(_, _, _)
DivDigits(st, d, count) ==
    IF count = 0
    THEN st
    ELSE IF BCmp(BDbl(st.r), d) >= 0
         THEN DivDigits([q |-> BAdd(BDbl(st.q), <<1>>), r |-> BSub(BDbl(st.r), d)], d, count - 1)
         ELSE DivDigits([q |-> BDbl(st.q), r |-> BDbl(st.r)], d, count - 1)

\* x / y for x, y # 0: x.n / y.n lies between 1/2 and 2, so 54 digits
\* after the point hold at least the 53 digits of the result and one more
fdiv(x, y) ==
    LET Quotient(dd) ==
            RoundToDouble(x.neg # y.neg, dd.q, 54 + x.k - y.k, dd.r # <<>>)
        Second(dd) == Quotient(DivDigits(dd, y.n, 27))
    IN  Second(DivDigits(IF BCmp(x.n, y.n) >= 0
                         THEN [q |-> <<1>>, r |-> BSub(x.n, y.n)]
                         ELSE [q |-> <<>>, r |-> x.n],
                         y.n, 27))

\* the magnitudes of x and y over the common denominator 2^k
Aligned(x, y) ==
    LET k == IF x.k > y.k THEN x.k ELSE y.k
    IN  [a |-> BShl(x.n, k - x.k), b |-> BShl(y.n, k - y.k), k |-> k]

\* -1, 0 or 1 as |x| < |y|, |x| = |y|, |x| > |y|
CmpMagnitude(x, y) ==
    IF x.n = <<>> \/ y.n = <<>>
    THEN (IF x.n = y.n THEN 0 ELSE IF x.n = <<>> THEN -1 ELSE 1)
    ELSE LET al == Aligned(x, y) IN BCmp(al.a, al.b)

\* x - y for x, y > 0
fsub(x, y) ==
    LET al == Aligned(x, y)
    IN  IF BCmp(al.a, al.b) >= 0
        THEN RoundToDouble(FALSE, BSub(al.a, al.b), al.k, FALSE)
        ELSE RoundToDouble(TRUE, BSub(al.b, al.a), al.k, FALSE)

\* x / 2
fhalf(x) == IF x.n = <<>> THEN x ELSE [x EXCEPT !.k = x.k + 1]

\* Math.max(x, y) for x, y > 0
fmax(x, y) == IF CmpMagnitude(x, y) >= 0 THEN x ELSE y

\* resizer: calcCropSourceRect
calcCropSourceRect(srcW, srcH, targetW, targetH) ==
    LET Rect(sw, sh) ==
            [sx |-> fhalf(fsub(ToDouble(srcW), sw)),
             sy |-> fhalf(fsub(ToDouble(srcH), sh)),
             sw |-> sw, sh |-> sh]
        Scaled(scale) ==
            Rect(fdiv(ToDouble(targetW), scale), fdiv(ToDouble(targetH), scale))
    IN  Scaled(fmax(fdiv(ToDouble(targetW), ToDouble(srcW)),
                    fdiv(ToDouble(targetH), ToDouble(srcH))))

\* the extents calcCropSourceRect is applied to
CropExtents == {1, 2, 7, 17}

CropIdle ==
    /\ cropSource = Dimensions(1, 1)
    /\ cropTarget = Dimensions(1, 1)
    /\ cropRect = [sx |-> Zero, sy |-> Zero, sw |-> Zero, sh |-> Zero]

\* part_004: handleConvert, the label of a 2x variant
VariantLabel(name) ==
    LET lastDotIndex == lastIndexOf(name, ".")
    IN  IF lastDotIndex # 0
        THEN SubSeq(name, 1, lastDotIndex - 1) \o At2x \o SubSeq(name, lastDotIndex, Len(name))
        ELSE name \o At2x

\* part_004: handleConvert, `${parts.join(".")}@2x.${ext}` after
\* parts = newName.split("."), ext = parts.pop()
NewName2x_suffix(name) == name \o At2x

NewName2x(name) ==
    LET lastDotIndex == lastIndexOf(name, ".")
    IN  SubSeq(name, 1, lastDotIndex - 1) \o At2x \o <<".">>
            \o SubSeq(name, lastDotIndex + 1, Len(name))

\* part_004: handleConvert, the result of a 2x variant is renamed
Rename2x(result) ==
    Spread(result, [newName |-> NewName2x(result.newName),
                    originalName |-> NewName2x(result.newName)])

NoConv == [pc |-> "none"]
WorkerIdle == [stage |-> "idle"]

\* part_004: updateFileProgress, updateFileResult, updateFileError
updateFileProgress_anyId(fs, id, progress) ==
    [i \in 1..Len(fs) |->
        IF fs[i].status = "processing"
        THEN Spread(fs[i], [progress |-> progress]) ELSE fs[i]]

updateFileProgress(fs, id, progress) ==
    [i \in 1..Len(fs) |->
        IF fs[i].id = id THEN Spread(fs[i], [progress |-> progress]) ELSE fs[i]]

updateFileResult_upsert(fs, id, result) ==
    IF \E i \in 1..Len(fs) : fs[i].id = id
    THEN [i \in 1..Len(fs) |->
            IF fs[i].id = id
            THEN Spread(fs[i], [status |-> "done", progress |-> 100, result |-> result])
            ELSE fs[i]]
    ELSE Append(fs, [id |-> id, status |-> "done", progress |-> 100, result |-> result])

updateFileResult(fs, id, result) ==
    [i \in 1..Len(fs) |->
        IF fs[i].id = id
        THEN Spread(fs[i], [status |-> "done", progress |-> 100, result |-> result])
        ELSE fs[i]]

updateFileError_resetProgress(fs, id, error) ==
    [i \in 1..Len(fs) |->
        IF fs[i].id = id
        THEN Spread(fs[i], [status |-> "error", error |-> error, progress |-> 0])
        ELSE fs[i]]

updateFileError(fs, id, error) ==
    [i \in 1..Len(fs) |->
        IF fs[i].id = id
        THEN Spread(fs[i], [status |-> "error", error |-> error])
        ELSE fs[i]]

\* part_004: handleConvert, the 2x variant of one record
Variant_undoubled(file, s) ==
    LET opts == Spread(Spread([generate2x |-> FALSE],
                   IF Falsy(s, "width") THEN <<>> ELSE [width |-> s.width]),
                   IF Falsy(s, "height") THEN <<>> ELSE [height |-> s.height])
    IN  Spread(Without(file, {"result", "error"}),
               [id |-> VariantId(file.id), label |-> VariantLabel(FileName(file.file)),
                customOptions |-> opts, status |-> "pending", progress |-> 0])

Variant(file, s) ==
    LET opts == Spread(Spread([generate2x |-> FALSE],
                   IF Falsy(s, "width") THEN <<>> ELSE [width |-> s.width * 2]),
                   IF Falsy(s, "height") THEN <<>> ELSE [height |-> s.height * 2])
    IN  Spread(Without(file, {"result", "error"}),
               [id |-> VariantId(file.id), label |-> VariantLabel(FileName(file.file)),
                customOptions |-> opts, status |-> "pending", progress |-> 0])

NeedsVariant(file) ==
    file.status = "pending" /\ "customOptions" \notin DOMAIN file

RECURSIVE NewVariants(_, _)
NewVariants(fs, s) ==
    IF fs = <<>> THEN <<>>
    ELSE (IF NeedsVariant(Head(fs)) THEN <<Variant(Head(fs), s)>> ELSE <<>>)
             \o NewVariants(Tail(fs), s)

\* part_004: handleConvert, "Mark all pending files as processing"
MarkProcessing_all(fs) ==
    [i \in 1..Len(fs) |-> Spread(fs[i], [status |-> "processing", progress |-> 0])]

MarkProcessing(fs) ==
    [i \in 1..Len(fs) |->
        IF fs[i].status = "pending"
        THEN Spread(fs[i], [status |-> "processing", progress |-> 0])
        ELSE fs[i]]

\* converter / worker: the ConvertedImage of a conversion; `by` records the
\* thread that produced it
ConvertedImage(file, options, by) ==
    [by |-> by,
     originalName |-> FileName(file),
     newName |-> generateNewFilename(FileName(file), "webp"),
     newDimensions |->
        calculateDimensions(NaturalDimensions,
            Without(options, {"generate2x"}), "contain", TRUE)]

(* The state a chain of main-thread continuations works on. *)
Main ==
    [files |-> files, isConverting |-> isConverting, batch |-> batch,
     idx |-> idx, hpc |-> hpc, effectiveSettings |-> effectiveSettings,
     conv |-> conv, taskIdCounter |-> taskIdCounter]

Commit(m) ==
    \E v \in {m} :
        /\ files' = v.files
        /\ isConverting' = v.isConverting
        /\ batch' = v.batch
        /\ idx' = v.idx
        /\ hpc' = v.hpc
        /\ effectiveSettings' = v.effectiveSettings
        /\ conv' = v.conv
        /\ taskIdCounter' = v.taskIdCounter

\* onProgress of handleConvert: (progress) => updateFileProgress(file.id, progress)
OnProgress(m, progress) ==
    [m EXCEPT !.files = updateFileProgress(m.files, m.conv.id, progress)]

\* workerManager: convertImageAsync, up to its first await
ConvertImageAsync(m, file, options) ==
    IF workerSupported
    THEN \* WorkerManager.convertImage: ++taskIdCounter, onProgress(5), await loadImage
         OnProgress([m EXCEPT !.hpc = "convert",
                              !.taskIdCounter = m.taskIdCounter + 1,
                              !.conv = [pc |-> "workerLoad", id |-> file.id,
                                        file |-> file.file, options |-> options,
                                        task |-> m.taskIdCounter + 1]], 5)
    ELSE \* await import("./converter")
         [m EXCEPT !.hpc = "convert",
                   !.conv = [pc |-> "import", id |-> file.id,
                             file |-> file.file, options |-> options, task |-> 0]]

\* part_004: handleConvert, the body of the for loop for batch[j], up to its
\* first await
Iteration_globalWins(m, j) ==
    LET file == m.batch[j]
        merged == IF "customOptions" \in DOMAIN file
                  THEN Spread(file.customOptions, settings)
                  ELSE settings
        m1 == [m EXCEPT !.idx = j, !.effectiveSettings = merged]
    IN  IF /\ "customOptions" \in DOMAIN file
           /\ Falsy(merged, "width") /\ Falsy(merged, "height")
        THEN \* await loadImage(file.file)
             [m1 EXCEPT !.hpc = "load2x"]
        ELSE ConvertImageAsync(m1, file, merged)

Iteration(m, j) ==
    LET file == m.batch[j]
        merged == IF "customOptions" \in DOMAIN file
                  THEN Spread(settings, file.customOptions)
                  ELSE settings
        m1 == [m EXCEPT !.idx = j, !.effectiveSettings = merged]
    IN  IF /\ "customOptions" \in DOMAIN file
           /\ Falsy(merged, "width") /\ Falsy(merged, "height")
        THEN \* await loadImage(file.file)
             [m1 EXCEPT !.hpc = "load2x"]
        ELSE ConvertImageAsync(m1, file, merged)

\* part_004: handleConvert, the for loop from the position after m.idx on
RunLoop_noSkip(m) ==
    LET rest == (m.idx + 1)..Len(m.batch)
    IN  IF rest = {}
        THEN [m EXCEPT !.isConverting = FALSE, !.hpc = "idle", !.conv = NoConv,
                       !.batch = <<>>, !.idx = 0, !.effectiveSettings = <<>>]
        ELSE Iteration([m EXCEPT !.conv = NoConv],
                       CHOOSE j \in rest : \A k \in rest : j <= k)

RunLoop(m) ==
    LET rest == {j \in (m.idx + 1)..Len(m.batch) : m.batch[j].status = "processing"}
    IN  IF rest = {}
        THEN [m EXCEPT !.isConverting = FALSE, !.hpc = "idle", !.conv = NoConv,
                       !.batch = <<>>, !.idx = 0, !.effectiveSettings = <<>>]
        ELSE Iteration([m EXCEPT !.conv = NoConv],
                       CHOOSE j \in rest : \A k \in rest : j <= k)

\* part_004: handleConvert, after await convertImageAsync returned result
Converted_noLoop(m, result) ==
    [m EXCEPT !.files = updateFileResult(m.files, m.batch[m.idx].id,
                IF "customOptions" \in DOMAIN m.batch[m.idx]
                THEN Rename2x(result) ELSE result),
              !.conv = NoConv]

Converted(m, result) ==
    RunLoop([m EXCEPT !.files = updateFileResult(m.files, m.batch[m.idx].id,
                IF "customOptions" \in DOMAIN m.batch[m.idx]
                THEN Rename2x(result) ELSE result)])

\* part_004: handleConvert, the catch of the loop body
Failed_abort(m, error) ==
    [m EXCEPT !.files = updateFileError(m.files, m.batch[m.idx].id, error),
              !.isConverting = FALSE, !.hpc = "idle", !.conv = NoConv,
              !.batch = <<>>, !.idx = 0, !.effectiveSettings = <<>>]

Failed(m, error) ==
    RunLoop([m EXCEPT !.files = updateFileError(m.files, m.batch[m.idx].id, error)])

\* convertImageAsync: the catch of the worker attempt, then await import
FallBack_rethrow(m) == Failed(m, "Worker conversion failed")

FallBack(m) == [m EXCEPT !.conv = Spread(m.conv, [pc |-> "import"])]

AppIdle ==
    /\ files = <<>>
    /\ settings = InitialSettings
    /\ currentSettings = DEFAULT_SETTINGS
    /\ autofill = 0
    /\ isConverting = FALSE
    /\ batch = <<>>
    /\ idx = 0
    /\ hpc = "idle"
    /\ effectiveSettings = <<>>
    /\ conv = NoConv
    /\ taskIdCounter = 0
    /\ tasks = <<>>
    /\ worker = "null"
    /\ inbox = <<>>
    /\ job = WorkerIdle
    /\ events = <<>>
    /\ delivered = 0
    /\ corrupt = {}
    /\ dropped = 0
    /\ settled = <<>>
    /\ callbacks = <<>>
    /\ handled = {}
    /\ posted = {}
    /\ revoked = {}
    /\ created = 0
    /\ zipFile = <<>>
    /\ downloads = <<>>

AppUnused == AppIdle /\ workerSupported = TRUE

----------------------------------------------------------------------------
(* Specification of the resizer: the inputs are drawn by Init, the action  *)
(* applies calculateDimensions to them.                                    *)

RatioIdle == originalSize = 0 /\ newSize = 0 /\ ratio = 0

FilenameIdle == originalName = <<>> /\ format = "webp" /\ newName = <<>>

ResizerIdle ==
    /\ original = Dimensions(1, 1)
    /\ target = <<>>
    /\ fit = "contain"
    /\ maintainAspectRatio = TRUE
    /\ newDimensions = Dimensions(1, 1)

InitResizer ==
    /\ pc = "start"
    /\ original \in ImageDimensions
    /\ target \in TargetDimensions
    /\ fit \in FitMode
    /\ maintainAspectRatio \in BOOLEAN
    /\ newDimensions = original
    /\ RatioIdle
    /\ FilenameIdle
    /\ ZipIdle
    /\ PixelsIdle
    /\ CropIdle
    /\ AppUnused

CallCalculateDimensions ==
    /\ pc = "start"
    /\ newDimensions' = calculateDimensions(original, target, fit, maintainAspectRatio)
    /\ pc' = "done"
    /\ UNCHANGED <<original, target, fit, maintainAspectRatio, ratioVars, filenameVars, zipVars, pixelVars, cropVars, appVars>>

NextResizer == CallCalculateDimensions

SpecResizer == InitResizer /\ [][NextResizer]_vars

----------------------------------------------------------------------------
(* Specification of calculateCompressionRatio *)

InitRatio ==
    /\ pc = "start"
    /\ originalSize \in Sizes
    /\ newSize \in Sizes
    /\ ratio = 0
    /\ ResizerIdle
    /\ FilenameIdle
    /\ ZipIdle
    /\ PixelsIdle
    /\ CropIdle
    /\ AppUnused

CallCalculateCompressionRatio ==
    /\ pc = "start"
    /\ ratio' = calculateCompressionRatio(originalSize, newSize)
    /\ pc' = "done"
    /\ UNCHANGED <<originalSize, newSize, resizerVars, filenameVars, zipVars, pixelVars, cropVars, appVars>>

NextRatio == CallCalculateCompressionRatio

SpecRatio == InitRatio /\ [][NextRatio]_vars

----------------------------------------------------------------------------
(* Specification of generateNewFilename *)

InitFilename ==
    /\ pc = "start"
    /\ originalName \in Names
    /\ format \in OutputFormat
    /\ newName = <<>>
    /\ ResizerIdle
    /\ RatioIdle
    /\ ZipIdle
    /\ PixelsIdle
    /\ CropIdle
    /\ AppUnused

CallGenerateNewFilename ==
    /\ pc = "start"
    /\ newName' = generateNewFilename(originalName, format)
    /\ pc' = "done"
    /\ UNCHANGED <<originalName, format, resizerVars, ratioVars, zipVars, pixelVars, cropVars, appVars>>

NextFilename == CallGenerateNewFilename

SpecFilename == InitFilename /\ [][NextFilename]_vars

----------------------------------------------------------------------------
(* Specification of getZipPath *)

InitZipPath ==
    /\ pc = "start"
    /\ image \in ZipImages
    /\ zipPath = <<>>
    /\ ResizerIdle
    /\ RatioIdle
    /\ FilenameIdle
    /\ PixelsIdle
    /\ CropIdle
    /\ AppUnused

CallGetZipPath ==
    /\ pc = "start"
    /\ zipPath' = getZipPath(image)
    /\ pc' = "done"
    /\ UNCHANGED <<image, resizerVars, ratioVars, filenameVars, pixelVars, cropVars, appVars>>

NextZipPath == CallGetZipPath

SpecZipPath == InitZipPath /\ [][NextZipPath]_vars

----------------------------------------------------------------------------
(* Specification of the pixel pipelines: the worker's processImage and the *)
(* main thread's convertImage are applied to the same source and options.  *)

\* worker: processImage, from calculateDimensions to the resized ImageData
processImage(orig, tgt, f, keep) ==
    LET dims == calculateDimensions(orig, tgt, f, keep)
    IN  [dimensions |-> dims,
         transform |-> IF dims # orig THEN "resize" ELSE "none"]

\* converter: convertImage, from calculateDimensions to the resized canvas
convertImage(orig, tgt, f, keep) ==
    LET dims == calculateDimensions(orig, tgt, f, keep)
        shouldCrop == ~keep
    IN  [dimensions |-> dims,
         transform |-> IF dims # orig
                       THEN (IF shouldCrop THEN "cropAndResize" ELSE "resize")
                       ELSE "none"]

InitPixels ==
    /\ pc = "start"
    /\ original \in ImageDimensions
    /\ target \in TargetDimensions
    /\ fit \in FitMode
    /\ maintainAspectRatio \in BOOLEAN
    /\ newDimensions = original
    /\ workerPixels = NoPixels
    /\ mainPixels = NoPixels
    /\ CropIdle
    /\ RatioIdle
    /\ FilenameIdle
    /\ ZipIdle
    /\ AppIdle
    /\ workerSupported = TRUE

WorkerProcessImage ==
    /\ pc = "start"
    /\ workerPixels = NoPixels
    /\ workerPixels' = processImage(original, target, fit, maintainAspectRatio)
    /\ pc' = IF mainPixels = NoPixels THEN "start" ELSE "done"
    /\ UNCHANGED <<resizerVars, ratioVars, filenameVars, zipVars, mainPixels, cropVars, appVars>>

MainConvertImage ==
    /\ pc = "start"
    /\ mainPixels = NoPixels
    /\ mainPixels' = convertImage(original, target, fit, maintainAspectRatio)
    /\ pc' = IF workerPixels = NoPixels THEN "start" ELSE "done"
    /\ UNCHANGED <<resizerVars, ratioVars, filenameVars, zipVars, workerPixels, cropVars, appVars>>

NextPixels ==
    \/ WorkerProcessImage
    \/ MainConvertImage

SpecPixels == InitPixels /\ [][NextPixels]_vars

----------------------------------------------------------------------------
(* Specification of calcCropSourceRect *)

InitCrop ==
    /\ pc = "start"
    /\ cropSource \in [width : CropExtents, height : CropExtents]
    /\ cropTarget \in [width : CropExtents, height : CropExtents]
    /\ cropRect = [sx |-> Zero, sy |-> Zero, sw |-> Zero, sh |-> Zero]
    /\ ResizerIdle
    /\ RatioIdle
    /\ FilenameIdle
    /\ ZipIdle
    /\ PixelsIdle
    /\ AppIdle
    /\ workerSupported = TRUE

CallCalcCropSourceRect ==
    /\ pc = "start"
    /\ cropRect' = calcCropSourceRect(cropSource.width, cropSource.height,
                                      cropTarget.width, cropTarget.height)
    /\ pc' = "done"
    /\ UNCHANGED <<cropSource, cropTarget, resizerVars, ratioVars, filenameVars,
                   zipVars, pixelVars, appVars>>

NextCrop == CallCalcCropSourceRect

SpecCrop == InitCrop /\ [][NextCrop]_vars

----------------------------------------------------------------------------
(* The application: handlers, continuations and worker steps *)

Init ==
    /\ pc = "app"
    /\ ResizerIdle
    /\ RatioIdle
    /\ FilenameIdle
    /\ ZipIdle
    /\ PixelsIdle
    /\ CropIdle
    /\ AppIdle
    /\ workerSupported \in BOOLEAN

pureVars == <<pc, resizerVars, ratioVars, filenameVars, zipVars, pixelVars, cropVars>>
panelVars == <<settings, currentSettings, autofill>>
mainVars == <<files, isConverting, batch, idx, hpc, effectiveSettings, conv, taskIdCounter>>
managerVars == <<tasks, worker, settled, callbacks, handled, posted>>
workerVars == <<inbox, job, events>>
envVars == <<workerSupported, corrupt, dropped, revoked, created, zipFile, downloads>>

\* the promise of WorkerManager.convertImage for task t settles with outcome o
Settle(s, t, o) ==
    [k \in DOMAIN s \cup {t} |-> IF k = t
                                 THEN (IF t \in DOMAIN s THEN s[t] ELSE <<>>) \o <<o>>
                                 ELSE s[k]]

\* part_004: handleFilesAdded (the files arrive from DropZone.processFiles)
HandleFilesAdded ==
    /\ pc = "app"
    /\ \E k \in 1..(MaxFiles - dropped) : \E bad \in SUBSET ((dropped + 1)..(dropped + k)) :
        /\ files' = files \o [i \in 1..k |-> NewImageFile(dropped + i)]
        /\ dropped' = dropped + k
        /\ corrupt' = corrupt \cup bad
        /\ autofill' = IF /\ "width" \notin DOMAIN currentSettings
                          /\ "height" \notin DOMAIN currentSettings
                          /\ dropped + 1 \notin bad
                       THEN autofill + 1 ELSE autofill
    /\ UNCHANGED <<pureVars, settings, currentSettings, isConverting, batch, idx, hpc, effectiveSettings,
                   conv, taskIdCounter, managerVars, workerVars, delivered, workerSupported,
                   revoked, created, zipFile, downloads>>

\* SettingsPanel.ts: setSettings, called when the loadImage of
\* handleFilesAdded resolves
AutoFillLoaded ==
    /\ pc = "app"
    /\ autofill > 0
    /\ autofill' = autofill - 1
    /\ currentSettings' = Spread(currentSettings,
            [width |-> NaturalDimensions.width, height |-> NaturalDimensions.height])
    /\ UNCHANGED <<pureVars, settings, mainVars, managerVars, workerVars, delivered, envVars>>

\* part_004: handleConvert, up to its first await
HandleConvert_reentrant ==
    /\ pc = "app"
    /\ IF Len(files) = 0
       THEN UNCHANGED mainVars
       ELSE LET expanded == IF "generate2x" \in DOMAIN settings /\ settings.generate2x
                            THEN files \o NewVariants(files, settings)
                            ELSE files
                marked == MarkProcessing(expanded)
            IN  Commit(RunLoop([Main EXCEPT !.isConverting = TRUE, !.files = marked,
                                            !.batch = marked, !.idx = 0]))
    /\ UNCHANGED <<pureVars, panelVars, managerVars, workerVars, delivered, envVars>>

HandleConvert ==
    /\ pc = "app"
    /\ IF isConverting \/ Len(files) = 0
       THEN UNCHANGED mainVars
       ELSE LET expanded == IF "generate2x" \in DOMAIN settings /\ settings.generate2x
                            THEN files \o NewVariants(files, settings)
                            ELSE files
                marked == MarkProcessing(expanded)
            IN  Commit(RunLoop([Main EXCEPT !.isConverting = TRUE, !.files = marked,
                                            !.batch = marked, !.idx = 0]))
    /\ UNCHANGED <<pureVars, panelVars, managerVars, workerVars, delivered, envVars>>

\* WorkerManager.getWorker: the Worker is created when there is none
getWorker(w) == IF w = "null" THEN "running" ELSE w

\* WorkerManager.convertImage: await loadImage(file) settles; then the task
\* is registered and posted to getWorker()
ManagerImageLoaded ==
    /\ pc = "app"
    /\ conv.pc = "workerLoad"
    /\ IF conv.file \in corrupt
       THEN /\ Commit(FallBack(Main))
            /\ settled' = Settle(settled, conv.task, "Failed to load image")
            /\ UNCHANGED <<tasks, worker, inbox, posted, created>>
       ELSE /\ Commit([Main EXCEPT !.conv = Spread(conv, [pc |-> "workerWait"])])
            /\ tasks' = Spread(tasks, [t \in {conv.task} |-> [onProgress |-> conv.id]])
            /\ worker' = getWorker(worker)
            /\ created' = IF worker = "null" THEN created + 1 ELSE created
            /\ inbox' = IF worker' = "running"
                        THEN Append(inbox, [type |-> "convert", id |-> conv.task,
                                            file |-> conv.file, options |-> conv.options])
                        ELSE inbox
            /\ posted' = posted \cup {conv.task}
            /\ UNCHANGED settled
    /\ UNCHANGED <<pureVars, panelVars, callbacks, handled, job, events, delivered,
                   workerSupported, corrupt, dropped, revoked, zipFile, downloads>>

\* worker: self.onmessage takes a convert request; processImage to
\* await canvasToBlob
WorkerOnMessage ==
    /\ pc = "app"
    /\ worker = "running"
    /\ job = WorkerIdle
    /\ inbox # <<>>
    /\ LET req == Head(inbox)
       IN  /\ job' = [stage |-> "canvasToBlob", id |-> req.id, file |-> req.file,
                      options |-> req.options]
           /\ events' = events \o
                [i \in 1..5 |-> [type |-> "progress", id |-> req.id,
                                 progress |-> <<10, 20, 30, 50, 70>>[i]]]
    /\ inbox' = Tail(inbox)
    /\ UNCHANGED <<pureVars, panelVars, mainVars, managerVars, delivered, envVars>>

\* worker: processImage, await canvasToBlob settles
WorkerCanvasToBlob_noReturn ==
    /\ pc = "app"
    /\ worker = "running"
    /\ job.stage = "canvasToBlob"
    /\ \/ /\ job' = Spread(job, [stage |-> "blobToDataUrl"])
          /\ events' = Append(events, [type |-> "progress", id |-> job.id, progress |-> 85])
       \/ /\ job' = Spread(job, [stage |-> "blobToDataUrl"])
          /\ events' = Append(events, [type |-> "error", id |-> job.id])
    /\ UNCHANGED <<pureVars, panelVars, mainVars, managerVars, inbox, delivered, envVars>>

WorkerCanvasToBlob ==
    /\ pc = "app"
    /\ worker = "running"
    /\ job.stage = "canvasToBlob"
    /\ \/ /\ job' = Spread(job, [stage |-> "blobToDataUrl"])
          /\ events' = Append(events, [type |-> "progress", id |-> job.id, progress |-> 85])
       \/ /\ job' = WorkerIdle
          /\ events' = Append(events, [type |-> "error", id |-> job.id])
    /\ UNCHANGED <<pureVars, panelVars, mainVars, managerVars, inbox, delivered, envVars>>

\* worker: processImage, await blobToDataUrl settles; the result is posted
WorkerBlobToDataUrl_resultFirst ==
    /\ pc = "app"
    /\ worker = "running"
    /\ job.stage = "blobToDataUrl"
    /\ job' = WorkerIdle
    /\ \/ events' = events \o
            << [type |-> "result", id |-> job.id,
                image |-> ConvertedImage(job.file, job.options, "worker")],
               [type |-> "progress", id |-> job.id, progress |-> 100] >>
       \/ events' = Append(events, [type |-> "error", id |-> job.id])
    /\ UNCHANGED <<pureVars, panelVars, mainVars, managerVars, inbox, delivered, envVars>>

WorkerBlobToDataUrl ==
    /\ pc = "app"
    /\ worker = "running"
    /\ job.stage = "blobToDataUrl"
    /\ job' = WorkerIdle
    /\ \/ events' = events \o
            << [type |-> "progress", id |-> job.id, progress |-> 100],
               [type |-> "result", id |-> job.id,
                image |-> ConvertedImage(job.file, job.options, "worker")] >>
       \/ events' = Append(events, [type |-> "error", id |-> job.id])
    /\ UNCHANGED <<pureVars, panelVars, mainVars, managerVars, inbox, delivered, envVars>>

\* the worker context fails: it stops, and an error event is dispatched to
\* the Worker object
WorkerCrash ==
    /\ pc = "app"
    /\ worker = "running"
    /\ worker' = "crashed"
    /\ events' = Append(events, [type |-> "crash"])
    /\ UNCHANGED <<pureVars, panelVars, mainVars, tasks, settled, callbacks, handled,
                   posted, inbox, job, delivered, envVars>>

\* WorkerManager.handleMessage, and the continuation of the promise it settles
HandleMessage ==
    /\ pc = "app"
    /\ delivered < Len(events)
    /\ LET msg == events[delivered + 1]
       IN  /\ msg.type # "crash"
           /\ IF msg.id \notin DOMAIN tasks
              THEN UNCHANGED <<mainVars, tasks, settled, callbacks, handled>>
              ELSE CASE msg.type = "progress" ->
                          /\ Commit([Main EXCEPT !.files =
                                updateFileProgress(files, tasks[msg.id].onProgress,
                                                   msg.progress)])
                          /\ callbacks' = Settle(callbacks, msg.id, msg.progress)
                          /\ UNCHANGED <<tasks, settled, handled>>
                     [] msg.type = "result" ->
                          /\ tasks' = Without(tasks, {msg.id})
                          /\ settled' = Settle(settled, msg.id, "resolved")
                          /\ handled' = handled \cup {msg.id}
                          /\ Commit(Converted(Main, msg.image))
                          /\ UNCHANGED callbacks
                     [] msg.type = "error" ->
                          /\ tasks' = Without(tasks, {msg.id})
                          /\ settled' = Settle(settled, msg.id, "rejected")
                          /\ handled' = handled \cup {msg.id}
                          /\ Commit(FallBack(Main))
                          /\ UNCHANGED callbacks
    /\ delivered' = delivered + 1
    /\ UNCHANGED <<pureVars, panelVars, worker, posted, workerVars, envVars>>

\* WorkerManager.handleError, and the continuations of the promises it rejects
HandleError_noClear ==
    /\ pc = "app"
    /\ delivered < Len(events)
    /\ events[delivered + 1].type = "crash"
    /\ delivered' = delivered + 1
    /\ tasks' = tasks
    /\ settled' = [t \in DOMAIN settled \cup DOMAIN tasks |->
                     (IF t \in DOMAIN settled THEN settled[t] ELSE <<>>) \o
                     (IF t \in DOMAIN tasks THEN <<"Worker error">> ELSE <<>>)]
    /\ IF conv.pc = "workerWait" /\ conv.task \in DOMAIN tasks
       THEN Commit(FallBack(Main))
       ELSE UNCHANGED mainVars
    /\ UNCHANGED <<pureVars, panelVars, worker, callbacks, handled, posted, workerVars, envVars>>

HandleError ==
    /\ pc = "app"
    /\ delivered < Len(events)
    /\ events[delivered + 1].type = "crash"
    /\ delivered' = delivered + 1
    /\ tasks' = <<>>
    /\ settled' = [t \in DOMAIN settled \cup DOMAIN tasks |->
                     (IF t \in DOMAIN settled THEN settled[t] ELSE <<>>) \o
                     (IF t \in DOMAIN tasks THEN <<"Worker error">> ELSE <<>>)]
    /\ IF conv.pc = "workerWait" /\ conv.task \in DOMAIN tasks
       THEN Commit(FallBack(Main))
       ELSE UNCHANGED mainVars
    /\ UNCHANGED <<pureVars, panelVars, worker, callbacks, handled, posted, workerVars, envVars>>

\* convertImageAsync: await import("./converter") settles; convertImage
\* to await loadImage
ConverterImported ==
    /\ pc = "app"
    /\ conv.pc = "import"
    /\ Commit(OnProgress([Main EXCEPT !.conv = Spread(conv, [pc |-> "loadImage"])], 10))
    /\ UNCHANGED <<pureVars, panelVars, managerVars, workerVars, delivered, envVars>>

\* converter: convertImage, await loadImage settles; to await canvasToBlob
MainImageLoaded ==
    /\ pc = "app"
    /\ conv.pc = "loadImage"
    /\ IF conv.file \in corrupt
       THEN Commit(Failed(Main, "Failed to load image"))
       ELSE Commit(OnProgress([Main EXCEPT !.conv = Spread(conv, [pc |-> "canvasToBlob"])], 70))
    /\ UNCHANGED <<pureVars, panelVars, managerVars, workerVars, delivered, envVars>>

\* converter: convertImage, await canvasToBlob settles; to await blobToDataUrl
MainCanvasToBlob ==
    /\ pc = "app"
    /\ conv.pc = "canvasToBlob"
    /\ \/ Commit(OnProgress([Main EXCEPT !.conv = Spread(conv, [pc |-> "blobToDataUrl"])], 85))
       \/ Commit(Failed(Main, "Failed to convert canvas to blob"))
    /\ UNCHANGED <<pureVars, panelVars, managerVars, workerVars, delivered, envVars>>

\* converter: convertImage, await blobToDataUrl settles; the result returns
\* to handleConvert
MainBlobToDataUrl ==
    /\ pc = "app"
    /\ conv.pc = "blobToDataUrl"
    /\ \/ Commit(Converted(OnProgress(Main, 100),
                           ConvertedImage(conv.file, conv.options, "main")))
       \/ Commit(Failed(Main, "Failed to read blob"))
    /\ UNCHANGED <<pureVars, panelVars, managerVars, workerVars, delivered, envVars>>

\* SettingsPanel.ts: the event listeners of the panel; each ends in
\* onChange(currentSettings), which is part_004: handleSettingsChange
PanelEvent(changed) ==
    /\ pc = "app"
    /\ currentSettings' = changed
    /\ settings' = changed
    /\ UNCHANGED <<pureVars, autofill, mainVars, managerVars, workerVars, delivered, envVars>>

WidthInput ==
    \/ \E v \in UserDims : PanelEvent(Spread(currentSettings, [width |-> v]))
    \/ PanelEvent(Without(currentSettings, {"width"}))

HeightInput ==
    \/ \E v \in UserDims : PanelEvent(Spread(currentSettings, [height |-> v]))
    \/ PanelEvent(Without(currentSettings, {"height"}))

Generate2xChange ==
    PanelEvent(Spread(currentSettings,
        [generate2x |-> ~("generate2x" \in DOMAIN currentSettings
                          /\ currentSettings.generate2x)]))

ResetClick == PanelEvent(DEFAULT_SETTINGS)

\* part_004: handleConvert, await loadImage(file.file) of a 2x variant
\* without target size settles
Load2xSettled_native ==
    /\ pc = "app"
    /\ hpc = "load2x"
    /\ IF batch[idx].file \in corrupt
       THEN Commit(Failed(Main, "Failed to load image"))
       ELSE LET sized == Spread(effectiveSettings,
                       [width |-> NaturalDimensions.width,
                        height |-> NaturalDimensions.height])
            IN  Commit(ConvertImageAsync([Main EXCEPT !.effectiveSettings = sized],
                                         batch[idx], sized))
    /\ UNCHANGED <<pureVars, panelVars, managerVars, workerVars, delivered, envVars>>

Load2xSettled ==
    /\ pc = "app"
    /\ hpc = "load2x"
    /\ IF batch[idx].file \in corrupt
       THEN Commit(Failed(Main, "Failed to load image"))
       ELSE LET sized == Spread(effectiveSettings,
                       [width |-> NaturalDimensions.width * 2,
                        height |-> NaturalDimensions.height * 2])
            IN  Commit(ConvertImageAsync([Main EXCEPT !.effectiveSettings = sized],
                                         batch[idx], sized))
    /\ UNCHANGED <<pureVars, panelVars, managerVars, workerVars, delivered, envVars>>

Next ==
    \/ HandleFilesAdded
    \/ AutoFillLoaded
    \/ HandleConvert
    \/ ManagerImageLoaded
    \/ WorkerOnMessage
    \/ WorkerCanvasToBlob
    \/ WorkerBlobToDataUrl
    \/ WorkerCrash
    \/ HandleMessage
    \/ HandleError
    \/ ConverterImported
    \/ MainImageLoaded
    \/ MainCanvasToBlob
    \/ MainBlobToDataUrl

Spec == Init /\ [][Next]_vars

\* The event loop runs every continuation whose promise has settled and
\* delivers every event dispatched to the Worker object; the worker runs
\* on its own thread; every loadImage, canvasToBlob, blobToDataUrl and
\* import settles.  Nothing obliges the user to drop files or click, nor
\* the worker context to fail.
Settles ==
    \/ AutoFillLoaded
    \/ ManagerImageLoaded
    \/ WorkerOnMessage
    \/ WorkerCanvasToBlob
    \/ WorkerBlobToDataUrl
    \/ HandleMessage
    \/ HandleError
    \/ ConverterImported
    \/ MainImageLoaded
    \/ MainCanvasToBlob
    \/ MainBlobToDataUrl

\* the files of the session are dropped at once
NextLive ==
    \/ (files = <<>> /\ HandleFilesAdded)
    \/ AutoFillLoaded
    \/ HandleConvert
    \/ ManagerImageLoaded
    \/ WorkerOnMessage
    \/ WorkerCanvasToBlob
    \/ WorkerBlobToDataUrl
    \/ WorkerCrash
    \/ HandleMessage
    \/ HandleError
    \/ ConverterImported
    \/ MainImageLoaded
    \/ MainCanvasToBlob
    \/ MainBlobToDataUrl

FairSpec == Init /\ [][NextLive]_vars /\ WF_vars(Settles)

----------------------------------------------------------------------------
(* Specification of the 2x variants: the application with the settings     *)
(* panel in use; the worker context does not fail.                         *)

Init2x ==
    /\ pc = "app"
    /\ ResizerIdle
    /\ RatioIdle
    /\ FilenameIdle
    /\ ZipIdle
    /\ PixelsIdle
    /\ CropIdle
    /\ AppIdle
    /\ workerSupported = FALSE

\* the panel is set up before the first files are dropped; Worker is
\* undefined, so every conversion runs on the main thread
Next2x ==
    \/ HandleFilesAdded
    \/ AutoFillLoaded
    \/ (files = <<>> /\ WidthInput)
    \/ (files = <<>> /\ HeightInput)
    \/ (files = <<>> /\ Generate2xChange)
    \/ (files = <<>> /\ ResetClick)
    \/ HandleConvert
    \/ Load2xSettled
    \/ ConverterImported
    \/ MainImageLoaded
    \/ MainCanvasToBlob
    \/ MainBlobToDataUrl

Spec2x == Init2x /\ [][Next2x]_vars

----------------------------------------------------------------------------
(* Specification of settings changed during a batch: the files of the      *)
(* session are dropped at once, and the user edits the width and height    *)
(* fields while the batch runs; conversions run on the main thread.        *)

NextResize ==
    \/ (files = <<>> /\ HandleFilesAdded)
    \/ AutoFillLoaded
    \/ (files = <<>> /\ WidthInput)
    \/ (files = <<>> /\ HeightInput)
    \/ (files = <<>> /\ Generate2xChange)
    \/ (isConverting /\ WidthInput)
    \/ (isConverting /\ HeightInput)
    \/ HandleConvert
    \/ Load2xSettled
    \/ ConverterImported
    \/ MainImageLoaded
    \/ MainCanvasToBlob
    \/ MainBlobToDataUrl

SpecResize == Init2x /\ [][NextResize]_vars

----------------------------------------------------------------------------
(* Specification of the removal of records: records are removed from the   *)
(* list while batches run.                                                 *)

\* part_004: handleRemoveFile / handleRemoveMany, the filter
RemoveIds(fs, ids) == SelectSeq(fs, LAMBDA f : f.id \notin ids)

\* part_004: handleRemoveFile (FileList offers the ids of the list)
HandleRemoveFile ==
    /\ pc = "app"
    /\ \E i \in 1..Len(files) :
          /\ revoked' = revoked \cup {files[i].preview}
          /\ files' = RemoveIds(files, {files[i].id})
    /\ UNCHANGED <<pureVars, panelVars, isConverting, batch, idx, hpc, effectiveSettings,
                   conv, taskIdCounter, managerVars, workerVars, delivered,
                   workerSupported, corrupt, dropped, created, zipFile, downloads>>

\* part_004: handleRemoveMany (FileList passes the ids of a folder, at
\* least one)
HandleRemoveMany ==
    /\ pc = "app"
    /\ \E ids \in SUBSET {files[i].id : i \in 1..Len(files)} :
          /\ ids # {}
          /\ revoked' = revoked \cup {files[i].preview : i \in {j \in 1..Len(files) : files[j].id \in ids}}
          /\ files' = RemoveIds(files, ids)
    /\ UNCHANGED <<pureVars, panelVars, isConverting, batch, idx, hpc, effectiveSettings,
                   conv, taskIdCounter, managerVars, workerVars, delivered,
                   workerSupported, corrupt, dropped, created, zipFile, downloads>>

NextRemove ==
    \/ HandleFilesAdded
    \/ HandleRemoveFile
    \/ HandleRemoveMany
    \/ HandleConvert
    \/ ManagerImageLoaded
    \/ WorkerOnMessage
    \/ WorkerCanvasToBlob
    \/ WorkerBlobToDataUrl
    \/ HandleMessage
    \/ ConverterImported
    \/ MainImageLoaded
    \/ MainCanvasToBlob
    \/ MainBlobToDataUrl

SpecRemove == Init /\ [][NextRemove]_vars

----------------------------------------------------------------------------
(* Specification of terminate(): the application with calls of the         *)
(* exported workerManager.terminate() at any time.                         *)

\* WorkerManager.terminate.  Worker.terminate() stops the worker context
\* and discards the messages it has posted that are not delivered yet.
Terminate_keepTasks ==
    /\ pc = "app"
    /\ IF worker = "null"
       THEN UNCHANGED <<worker, tasks, inbox, job, delivered>>
       ELSE /\ worker' = "null"
            /\ tasks' = tasks
            /\ inbox' = <<>>
            /\ job' = WorkerIdle
            /\ delivered' = Len(events)
    /\ UNCHANGED <<pureVars, panelVars, mainVars, settled, callbacks, handled, posted,
                   events, envVars>>

Terminate ==
    /\ pc = "app"
    /\ IF worker = "null"
       THEN UNCHANGED <<worker, tasks, inbox, job, delivered>>
       ELSE /\ worker' = "null"
            /\ tasks' = <<>>
            /\ inbox' = <<>>
            /\ job' = WorkerIdle
            /\ delivered' = Len(events)
    /\ UNCHANGED <<pureVars, panelVars, mainVars, settled, callbacks, handled, posted,
                   events, envVars>>

NextTerminate ==
    \/ (files = <<>> /\ HandleFilesAdded)
    \/ HandleConvert
    \/ ManagerImageLoaded
    \/ WorkerOnMessage
    \/ WorkerCanvasToBlob
    \/ WorkerBlobToDataUrl
    \/ WorkerCrash
    \/ HandleMessage
    \/ HandleError
    \/ Terminate
    \/ ConverterImported
    \/ MainImageLoaded
    \/ MainCanvasToBlob
    \/ MainBlobToDataUrl

SpecTerminate == Init /\ [][NextTerminate]_vars

----------------------------------------------------------------------------
(* Specification of the downloads: the two download buttons are clicked at *)
(* any time; the files of the session are dropped at once and conversions  *)
(* run on the main thread.                                                 *)

\* part_004: state.files.filter((f) => f.result).map((f) => f.result!)
CompletedResults(fs) ==
    LET completed == SelectSeq(fs, LAMBDA f : "result" \in DOMAIN f)
    IN  [i \in 1..Len(completed) |-> completed[i].result]

\* JSZip: zip.file(path, blob) adds the entry or replaces the entry of
\* that path
ZipFile(zip, path, blob) ==
    [p \in DOMAIN zip \cup {path} |-> IF p = path THEN blob ELSE zip[p]]

\* zip: downloadAsZip, the loop over the images
RECURSIVE AddImages(_, _)
AddImages(zip, images) ==
    IF images = <<>>
    THEN zip
    ELSE AddImages(ZipFile(zip, getZipPath(Head(images)), Head(images)), Tail(images))

\* part_004: the click listener of the download-all button
DownloadAllClick ==
    /\ pc = "app"
    /\ downloads' = IF Len(CompletedResults(files)) > 0
                    THEN CompletedResults(files)
                    ELSE downloads
    /\ UNCHANGED <<pureVars, panelVars, mainVars, managerVars, workerVars, delivered,
                   workerSupported, corrupt, dropped, revoked, created, zipFile>>

\* part_004: the click listener of the ZIP button, and zip: downloadAsZip
DownloadZipClick ==
    /\ pc = "app"
    /\ zipFile' = IF Len(CompletedResults(files)) > 0
                  THEN AddImages(<<>>, CompletedResults(files))
                  ELSE zipFile
    /\ UNCHANGED <<pureVars, panelVars, mainVars, managerVars, workerVars, delivered,
                   workerSupported, corrupt, dropped, revoked, created, downloads>>

NextDownload ==
    \/ (files = <<>> /\ HandleFilesAdded)
    \/ HandleConvert
    \/ ConverterImported
    \/ MainImageLoaded
    \/ MainCanvasToBlob
    \/ MainBlobToDataUrl
    \/ DownloadAllClick
    \/ DownloadZipClick

SpecDownload == Init2x /\ [][NextDownload]_vars

----------------------------------------------------------------------------
(* Specification of the previews: records are removed from a list that     *)
(* holds 2x variants; the files of the session are dropped at once and     *)
(* conversions run on the main thread.                                     *)

NextPreview ==
    \/ (files = <<>> /\ HandleFilesAdded)
    \/ (files = <<>> /\ Generate2xChange)
    \/ HandleRemoveFile
    \/ HandleRemoveMany
    \/ HandleConvert
    \/ Load2xSettled
    \/ ConverterImported
    \/ MainImageLoaded
    \/ MainCanvasToBlob
    \/ MainBlobToDataUrl

SpecPreview == Init2x /\ [][NextPreview]_vars


----------------------------------------------------------------------------
(* Properties of calculateDimensions (checked under SpecResizer) *)

Returned == pc = "done"

\* the effective target as the specification words it: a supplied dimension
\* as given, a missing one taken from the original
EffectiveWidth ==
    IF "width" \in DOMAIN target THEN target.width ELSE original.width

EffectiveHeight ==
    IF "height" \in DOMAIN target THEN target.height ELSE original.height

EffectiveTarget == Dimensions(EffectiveWidth, EffectiveHeight)

\* originalRatio > targetRatio, cross-multiplied
OriginalIsWider ==
    original.width * EffectiveHeight > EffectiveWidth * original.height

\* n is p/q (q > 0) rounded to the nearest integer, halves away from zero
IsRoundHalfAway(n, p, q) ==
    IF p >= 0
    THEN 2 * n * q - q <= 2 * p /\ 2 * p < 2 * n * q + q
    ELSE 2 * n * q - q < 2 * p /\ 2 * p <= 2 * n * q + q

\* the result pins the width to the target and derives the height, or the
\* other way round
ConstrainedByWidth ==
    /\ newDimensions.width = EffectiveWidth
    /\ IsRoundHalfAway(newDimensions.height,
                       EffectiveWidth * original.height, original.width)

ConstrainedByHeight ==
    /\ newDimensions.height = EffectiveHeight
    /\ IsRoundHalfAway(newDimensions.width,
                       EffectiveHeight * original.width, original.height)

\* C1: with neither a target width nor a target height the result equals
\* the original, for every fit mode and both values of maintainAspectRatio.
ThmC1_NoTargetIsIdentity ==
    (Returned /\ DOMAIN target = {}) => newDimensions = original

WitC1_NoTargetIsIdentity ==
    /\ Returned /\ DOMAIN target = {}
    /\ original = Dimensions(1000, 500) /\ fit = "cover" /\ ~maintainAspectRatio
    /\ newDimensions = Dimensions(1000, 500)

\* C2: with maintainAspectRatio false and at least one target dimension
\* given, the result is exactly the effective target, for every fit mode.
ThmC2_NoRatioIsEffectiveTarget ==
    (Returned /\ ~maintainAspectRatio /\ DOMAIN target # {})
        => newDimensions = EffectiveTarget

WitC2_NoRatioIsEffectiveTarget ==
    /\ Returned /\ ~maintainAspectRatio /\ fit = "contain"
    /\ original = Dimensions(1000, 500) /\ DOMAIN target = {"height"}
    /\ target.height = 300
    /\ newDimensions = Dimensions(1000, 300)

ThmC5_RatioWithinOnePixel ==
    (Returned /\ maintainAspectRatio /\ fit \in {"contain", "cover"})
        => \/ /\ newDimensions.width = EffectiveWidth
              /\ Abs(newDimensions.height * original.width
                       - EffectiveWidth * original.height) < original.width
           \/ /\ newDimensions.height = EffectiveHeight
              /\ Abs(newDimensions.width * original.height
                       - EffectiveHeight * original.width) < original.height

\* 5x3 covering 4x4: the width 4 * 5/3 = 6.67 is rounded to 7
WitC5_RatioWithinOnePixel ==
    /\ Returned /\ maintainAspectRatio /\ fit = "cover"
    /\ original = Dimensions(5, 3) /\ DOMAIN target = {"width", "height"}
    /\ target.width = 4 /\ target.height = 4
    /\ newDimensions = Dimensions(7, 4)

\* C6: for positive-integer originals and targets the returned width and
\* height are both positive integers (never 0).
CexC6_PositiveResult ==
    (Returned /\ DOMAIN target = {"width", "height"})
        => newDimensions.width >= 1 /\ newDimensions.height >= 1

\* C7: with maintainAspectRatio true, contain never overflows the effective
\* target box and cover never underflows it.
ThmC7_ContainInsideCoverOutside ==
    (Returned /\ maintainAspectRatio)
        => /\ fit = "contain" => /\ newDimensions.width <= EffectiveWidth
                                 /\ newDimensions.height <= EffectiveHeight
           /\ fit = "cover" => /\ newDimensions.width >= EffectiveWidth
                               /\ newDimensions.height >= EffectiveHeight

\* 1000x500 into 5x5 stays inside the box on the height axis
WitC7_ContainInsideCoverOutside ==
    /\ Returned /\ maintainAspectRatio /\ fit = "contain"
    /\ original = Dimensions(1000, 500) /\ DOMAIN target = {"width", "height"}
    /\ target.width = 5 /\ target.height = 5
    /\ newDimensions.width = 5 /\ newDimensions.height < 5

\* C8: with fit = fill the result is the effective target exactly, whether
\* maintainAspectRatio is true or false; 1000x500 into 300x300 gives 300x300.
ThmC8_FillIsEffectiveTarget ==
    (Returned /\ fit = "fill") => newDimensions = EffectiveTarget

WitC8_FillIsEffectiveTarget ==
    /\ Returned /\ fit = "fill" /\ maintainAspectRatio
    /\ original = Dimensions(1000, 500) /\ DOMAIN target = {"width", "height"}
    /\ target.width = 300 /\ target.height = 300
    /\ newDimensions = Dimensions(300, 300)

----------------------------------------------------------------------------
(* Properties of calculateCompressionRatio (checked under SpecRatio) *)

\* r is an integer nearest to p/q (q > 0)
IsNearest(r, p, q) == 2 * Abs(r * q - p) <= q

\* C9 as stated: 0 when originalSize is 0, otherwise the integer nearest to
\* (1 - newSize/originalSize) * 100, which is negative when the file grew.
CexC9_NegativeWhenGrew ==
    Returned
        => IF originalSize = 0
           THEN ratio = 0
           ELSE /\ IsNearest(ratio, 100 * (originalSize - newSize), originalSize)
                /\ newSize > originalSize => ratio < 0

\* C9 amended: 0 when originalSize is 0, otherwise the integer nearest to
\* (1 - newSize/originalSize) * 100, which is negative exactly when the file
\* grew by more than 0.5 % of originalSize (a smaller growth gives 0).
ThmC9_CompressionRatio ==
    Returned
        => IF originalSize = 0
           THEN ratio = 0
           ELSE /\ IsNearest(ratio, 100 * (originalSize - newSize), originalSize)
                /\ ratio < 0 <=> 200 * (newSize - originalSize) > originalSize
                /\ (newSize > originalSize /\ ratio >= 0) => ratio = 0

WitC9_CompressionRatio ==
    /\ Returned
    /\ originalSize = 1000 /\ newSize = 1500
    /\ ratio = -50

----------------------------------------------------------------------------
(* Properties of generateNewFilename (checked under SpecFilename) *)

HasDot(s) == \E i \in 1..Len(s) : s[i] = "."

LastDot(s) ==
    CHOOSE i \in 1..Len(s) : s[i] = "." /\ \A j \in (i + 1)..Len(s) : s[j] # "."

\* the extension the claim names for each format
ExtensionOf(fmt) ==
    CASE fmt = "webp" -> <<".", "w", "e", "b", "p">>
      [] fmt = "png"  -> <<".", "p", "n", "g">>
      [] fmt = "jpeg" -> <<".", "j", "p", "g">>

\* C10 as stated: the name with only its last dot-suffix removed (earlier
\* dots kept, a name with no dot kept whole), followed by the extension.
CexC10_LastDotSuffixRemoved ==
    Returned
        => newName =
             (IF HasDot(originalName)
              THEN SubSeq(originalName, 1, LastDot(originalName) - 1)
              ELSE originalName) \o ExtensionOf(format)

\* the last dot-suffix is one the pattern removes: at least one character
\* follows the last dot and none of them is a slash
HasRemovableSuffix(s) ==
    /\ HasDot(s)
    /\ LastDot(s) < Len(s)
    /\ \A j \in (LastDot(s) + 1)..Len(s) : s[j] # "/"

\* C10 amended: the last dot-suffix is removed only if it has at least one
\* character after the dot and holds no slash; otherwise (no dot, a trailing
\* dot, a slash after the last dot) the name is kept whole; the extension of
\* the format follows.
ThmC10_NewFilename ==
    Returned
        => newName =
             (IF HasRemovableSuffix(originalName)
              THEN SubSeq(originalName, 1, LastDot(originalName) - 1)
              ELSE originalName) \o ExtensionOf(format)

\* ".a.a" as jpeg: the earlier dot is kept, ".a" is replaced by ".jpg"
WitC10_NewFilename ==
    /\ Returned
    /\ originalName = <<".", "a", ".", "a">> /\ format = "jpeg"
    /\ newName = <<".", "a", ".", "j", "p", "g">>

----------------------------------------------------------------------------
(* Properties of the application (checked under Spec) *)

\* the events the manager has handled so far
Handled == SubSeq(events, 1, delivered)

IsTerminal(e) == e.type \in {"result", "error"}

\* number of terminal messages the worker has posted for request t
Terminals(t) ==
    Cardinality({i \in 1..Len(events) : IsTerminal(events[i]) /\ events[i].id = t})

\* request t waits in the worker, or the worker is working on it
InWorker(t) ==
    /\ worker = "running"
    /\ \/ \E i \in 1..Len(inbox) : inbox[i].id = t
       \/ job # WorkerIdle /\ job.id = t

\* the manager has handled a terminal message of request t
TerminalHandled(t) ==
    \E i \in 1..delivered : IsTerminal(events[i]) /\ events[i].id = t

\* once a terminal message of t was handled, t is not pending and its
\* promise has settled exactly once
SettledOnce(t) ==
    TerminalHandled(t) => t \notin DOMAIN tasks /\ t \in DOMAIN settled /\ Len(settled[t]) = 1

\* C11 as stated: every request that is no longer in the worker has
\* exactly one terminal message (result or error, never both, never none),
\* and a handled terminal message leaves the task removed and its promise
\* settled exactly once.  Violated: a request in the worker when the
\* context fails gets no terminal message.
CexC11_ExactlyOneTerminal ==
    pc = "app" =>
        \A t \in posted : (InWorker(t) \/ Terminals(t) = 1) /\ SettledOnce(t)

\* C11 amended: the worker emits at most one terminal message per request,
\* and exactly one for every request it has finished working on; once the
\* manager has handled it the task is no longer pending and its promise
\* has settled exactly once.
ThmC11_OneTerminalPerFinishedRequest ==
    pc = "app" =>
        \A t \in posted :
            /\ Terminals(t) <= 1
            /\ (worker = "running" /\ ~InWorker(t)) => Terminals(t) = 1
            /\ SettledOnce(t)

\* a result and an error message of two requests have both been handled
WitC11_OneTerminalPerFinishedRequest ==
    /\ pc = "app"
    /\ \E t, u \in handled :
          /\ \E i \in 1..delivered : events[i].type = "result" /\ events[i].id = t
          /\ \E i \in 1..delivered : events[i].type = "error" /\ events[i].id = u

\* the progress values the worker has posted for request t, in order
Emitted(t) ==
    LET own == SelectSeq(events, LAMBDA e : e.type = "progress" /\ e.id = t)
    IN  [i \in 1..Len(own) |-> own[i].progress]

\* worker: the milestones of processImage
Milestones == <<10, 20, 30, 50, 70, 85, 100>>

IsPrefix(p, q) == Len(p) <= Len(q) /\ \A i \in 1..Len(p) : p[i] = q[i]

NonDecreasing(p) == \A i, j \in 1..Len(p) : i <= j => p[i] <= p[j]

\* no progress message of t follows a terminal message of t
ProgressBeforeTerminal(t) ==
    \A i, j \in 1..Len(events) :
        (i < j /\ IsTerminal(events[i]) /\ events[i].id = t)
            => ~(events[j].type = "progress" /\ events[j].id = t)

\* this step passes a progress value of task t to its onProgress
CallbackInvoked(t) ==
    /\ t \in DOMAIN callbacks'
    /\ t \in DOMAIN callbacks => callbacks'[t] # callbacks[t]

WorkerProgressOrdered ==
    \A t \in posted :
        /\ NonDecreasing(Emitted(t))
        /\ IsPrefix(Emitted(t), Milestones)
        /\ ProgressBeforeTerminal(t)
        /\ (\E i \in 1..Len(events) : events[i].type = "result" /\ events[i].id = t)
               => Emitted(t) = Milestones

ErrorEventHandled ==
    /\ delivered' = delivered + 1
    /\ delivered < Len(events)
    /\ events[delivered + 1].type = "crash"

\* C13: when the manager handles the error event of the worker, every task
\* that was pending is rejected with the "Worker error" error and the
\* pending map is empty afterwards.
ThmC13_ErrorEventRejectsAll ==
    [][ErrorEventHandled =>
          /\ tasks' = <<>>
          /\ \A t \in DOMAIN tasks :
                /\ t \notin DOMAIN settled
                /\ settled'[t] = <<"Worker error">>]_vars

\* the error event was handled while a task was pending
WitC13_ErrorEventRejectsAll ==
    /\ \E i \in 1..delivered : events[i].type = "crash"
    /\ \E t \in posted : t \in DOMAIN settled /\ settled[t] = <<"Worker error">>
    /\ tasks = <<>>

\* this step posts a convert request to the worker the manager holds
RequestPosted == posted' # posted

\* C14 as stated: after the context failed the next convertImage creates a
\* new Worker, so a request is only ever posted to a running worker.
\* Violated: handleError keeps this.worker, and getWorker returns the
\* failed one.
CexC14_RecreatedAfterCrash ==
    [][RequestPosted => worker' = "running"]_vars

\* the stages of the main-thread convertImage
MainStages == {"loadImage", "canvasToBlob", "blobToDataUrl"}

\* this step starts a call of convertImageAsync
CallStarted ==
    /\ conv'.pc # "none"
    /\ conv.pc = "none" \/ conv'.id # conv.id

\* this step rejects the promise of the running worker-side conversion
WorkerSideRejected ==
    /\ conv.pc \in {"workerLoad", "workerWait"}
    /\ conv.task \in DOMAIN settled'
    /\ conv.task \notin DOMAIN settled
    /\ settled'[conv.task] # <<"resolved">>

\* this step turns the record with identifier id into an error record
BecomesError(id) ==
    /\ \E i \in 1..Len(files) : files[i].id = id /\ files[i].status # "error"
    /\ \E i \in 1..Len(files') : files'[i].id = id /\ files'[i].status = "error"

\* C15: convertImageAsync goes to the main-thread convertImage, with the
\* same file and options, when Worker is undefined and whenever the
\* worker-side conversion rejects (load failure, error message, context
\* failure); the record of the call fails only out of a stage of the
\* main-thread convertImage.
ThmC15_FallbackToMainThread ==
    [][/\ CallStarted => (conv'.pc = "import" <=> ~workerSupported)
       /\ WorkerSideRejected => conv' = Spread(conv, [pc |-> "import"])
       /\ (hpc = "convert" /\ BecomesError(conv.id)) => conv.pc \in MainStages]_vars

\* the worker-side conversion of the only file was rejected by an error
\* message and the main-thread conversion produced its result
WitC15_FallbackToMainThread ==
    /\ workerSupported
    /\ Len(files) = 1
    /\ files[1].status = "done" /\ files[1].result.by = "main"
    /\ \E t \in posted : t \in DOMAIN settled /\ settled[t] = <<"rejected">>

\* the manager has handled the error event of the worker
ContextFailureHandled == \E i \in 1..delivered : events[i].type = "crash"

\* C16 as stated: once the context failure was handled (all pending tasks
\* rejected), every call of convertImageAsync that starts afterwards goes
\* to the main-thread conversion, not to the worker.  Violated:
\* convertImageAsync tests only typeof Worker, so the call enters
\* WorkerManager.convertImage again.
CexC16_SynchronousAfterFailure ==
    [][(ContextFailureHandled /\ CallStarted) => conv'.pc = "import"]_vars

\* the status of the record with identifier id in the list fs
StatusOf(fs, id) == fs[CHOOSE i \in 1..Len(fs) : fs[i].id = id].status

Ids(fs) == {fs[i].id : i \in 1..Len(fs)}

\* this step is handleConvert passing its guard
BatchTriggered == ~isConverting /\ batch' # <<>>

WorkListIsSnapshot ==
    isConverting =>
        /\ \A i \in 1..Len(files) :
              files[i].id \notin Ids(batch) => files[i].status = "pending"
        /\ conv.pc # "none" =>
              /\ idx \in 1..Len(batch)
              /\ conv.id = batch[idx].id
              /\ batch[idx].status = "processing"
        /\ \A i \in 1..Len(files) : \A j \in (idx + 1)..Len(batch) :
              (files[i].id = batch[j].id /\ batch[j].status = "processing")
                  => files[i].status = "processing" /\ files[i].progress = 0

\* handleConvert turns every pending record into a processing record with
\* progress 0, in state.files and in the list the loop iterates
AllPendingPromoted ==
    BatchTriggered =>
        /\ Len(batch') >= Len(files)
        /\ \A i \in 1..Len(files) :
              IF files[i].status = "pending"
              THEN /\ batch'[i] = Spread(files[i], [status |-> "processing", progress |-> 0])
                   /\ files'[i].status = "processing"
                   /\ i # idx' => files'[i] = batch'[i]
              ELSE batch'[i] = files[i] /\ files'[i] = files[i]

\* C18: a batch trigger makes every pending record processing with
\* progress 0 before the first conversion starts; the list so marked is
\* the work list of the batch, and a record added while the batch runs
\* stays pending and is not converted by it.
ThmC18_BatchSnapshot ==
    /\ []WorkListIsSnapshot
    /\ [][AllPendingPromoted]_vars

\* a record added while the batch was running is still pending when the
\* batch converts the last stage of its own record
WitC18_BatchSnapshot ==
    /\ isConverting
    /\ Len(batch) = 1 /\ Len(files) = 2
    /\ files[2].status = "pending"
    /\ conv.pc = "blobToDataUrl"

\* the record of state.files with identifier id
RecordOf(id) == files[CHOOSE i \in 1..Len(files) : files[i].id = id]

\* an event (progress, result or error) of the record has occurred
Started(r) == r.progress > 0 \/ r.status \in {"done", "error"}

\* the terminal event (result or error) of the record has occurred
Ended(r) == r.status \in {"done", "error"}

\* the positions of the batch list that the batch converts
WorkList == {j \in 1..Len(batch) : batch[j].status = "processing"}

\* C19: within a batch the records are converted one at a time in the
\* order of the list: a record has no progress, result or error before
\* every record of the batch in front of it has its result or error, also
\* when the worker path fails and the main-thread fallback runs; and every
\* event of a running batch belongs to the record the loop is at, or to
\* the next one when the step ends that record and goes on.
ThmC19_OneAtATimeInOrder ==
    /\ [](\A j, k \in WorkList :
             (j < k /\ Started(RecordOf(batch[k].id))) => Ended(RecordOf(batch[j].id)))
    /\ [][\A i \in 1..Len(files) :
             (isConverting /\ files'[i] # files[i]) =>
                \/ files[i].id = batch[idx].id
                \/ /\ Ended(files'[CHOOSE n \in 1..Len(files) : files[n].id = batch[idx].id])
                   /\ idx' > idx
                   /\ files[i].id = batch[idx'].id]_vars

\* the first record of a batch of two ended on the main thread after its
\* worker-side conversion was rejected, and the second one is in progress
WitC19_OneAtATimeInOrder ==
    /\ workerSupported
    /\ Len(batch) = 2 /\ WorkList = {1, 2}
    /\ Ended(files[1]) /\ \E t \in posted : t \in DOMAIN settled /\ settled[t] # <<"resolved">>
    /\ files[2].status = "processing" /\ files[2].progress > 5

\* the record is as updateFileResult leaves it
IsDoneRecord(r) ==
    /\ r.progress = 100
    /\ "result" \in DOMAIN r /\ r.result.by \in {"worker", "main"}
    /\ "error" \notin DOMAIN r

\* the record is as updateFileError leaves it
IsErrorRecord(r) == "error" \in DOMAIN r /\ "result" \notin DOMAIN r

\* C20: a record that becomes done has progress 100 and the result stored;
\* a record that becomes error has the error message stored, no result,
\* and the progress it had when the conversion failed; both stay so.
ThmC20_TerminalRecord ==
    /\ [](\A i \in 1..Len(files) :
             /\ files[i].status = "done" => IsDoneRecord(files[i])
             /\ files[i].status = "error" => IsErrorRecord(files[i]))
    /\ [][\A i \in 1..Len(files) :
             (files[i].status = "processing" /\ files'[i].status = "error")
                 => files'[i].progress = files[i].progress]_vars

\* one record ended with a result, another failed in canvasToBlob on the
\* main thread and kept the progress reported before
WitC20_TerminalRecord ==
    \E i, j \in 1..Len(files) :
        /\ files[i].status = "done" /\ files[i].progress = 100
        /\ files[j].status = "error" /\ files[j].progress = 70
        /\ files[j].error = "Failed to convert canvas to blob"

\* the positions of the work list behind the record the loop is at
LaterWork == {j \in WorkList : j > idx}

\* C21: when the conversion of a record fails (load or encode failure),
\* that record alone becomes an error record, and the same step goes on to
\* the next record of the work list, or ends the batch when there is none.
ThmC21_FailureDoesNotAbort ==
    [][\A i \in 1..Len(files) :
          (isConverting /\ files[i].status = "processing" /\ files'[i].status = "error") =>
             /\ files[i].id = batch[idx].id
             /\ \A n \in 1..Len(files) : n # i => files'[n].status = files[n].status
             /\ IF LaterWork = {}
                THEN ~isConverting'
                ELSE /\ isConverting'
                     /\ idx' \in LaterWork /\ \A j \in LaterWork : idx' <= j
                     /\ conv'.pc # "none" /\ conv'.id = batch[idx'].id]_vars

\* the first record of a batch of two failed and the second one is in the
\* last stage of its conversion
WitC21_FailureDoesNotAbort ==
    /\ Len(batch) = 2 /\ WorkList = {1, 2}
    /\ files[1].status = "error"
    /\ files[2].status = "processing" /\ files[2].progress = 85

----------------------------------------------------------------------------
(* Properties of the 2x variants (checked under Spec2x) *)

Generate2xEnabled == "generate2x" \in DOMAIN settings /\ settings.generate2x

IsSet(s, f) == f \in DOMAIN s /\ s[f] # 0

\* the records handleConvert makes a variant of
PendingOriginals(fs) ==
    SelectSeq(fs, LAMBDA f : f.status = "pending" /\ "customOptions" \notin DOMAIN f)

\* name with @2x before its last extension, or at its end if it has none
LabelOf(name) ==
    IF HasDot(name)
    THEN SubSeq(name, 1, LastDot(name) - 1) \o <<"@", "2", "x">>
             \o SubSeq(name, LastDot(name), Len(name))
    ELSE name \o <<"@", "2", "x">>

\* v is the variant the claim describes for the record f
IsVariantOf(v, f) ==
    /\ v.id = [base |-> f.id.base, x2 |-> f.id.x2 + 1]
    /\ v.file = f.file
    /\ v.status = "pending" /\ v.progress = 0
    /\ "result" \notin DOMAIN v /\ "error" \notin DOMAIN v
    /\ v.label = LabelOf(FileName(f.file))
    /\ v.customOptions.generate2x = FALSE
    /\ "width" \in DOMAIN v.customOptions <=> IsSet(settings, "width")
    /\ IsSet(settings, "width") => v.customOptions.width = 2 * settings.width
    /\ "height" \in DOMAIN v.customOptions <=> IsSet(settings, "height")
    /\ IsSet(settings, "height") => v.customOptions.height = 2 * settings.height

\* the variants handleConvert would make of the present records are one
\* per pending record without customOptions, in their order
ExpansionIsOnePerPending ==
    LET made == NewVariants(files, settings)
        from == PendingOriginals(files)
    IN  /\ Len(made) = Len(from)
        /\ \A k \in 1..Len(made) : IsVariantOf(made[k], from[k])

\* handleConvert with generate2x enabled appends these variants and leaves
\* the customOptions of the records it found as they were
ExpansionAppended ==
    (BatchTriggered /\ Generate2xEnabled) =>
        LET made == NewVariants(files, settings)
        IN  /\ Len(files') = Len(files) + Len(made)
            /\ \A k \in 1..Len(made) :
                  LET v == files'[Len(files) + k]
                  IN  /\ v.id = made[k].id /\ v.file = made[k].file
                      /\ v.label = made[k].label
                      /\ v.customOptions = made[k].customOptions
            /\ \A i \in 1..Len(files) :
                  /\ files'[i].id = files[i].id
                  /\ "customOptions" \in DOMAIN files'[i] <=> "customOptions" \in DOMAIN files[i]

\* C22: handleConvert with generate2x enabled appends exactly one variant
\* for each pending record without customOptions: id <originalId>-2x,
\* pending with progress 0, label = file name with @2x before the last
\* extension (at the end if none), customOptions with twice the global
\* width and height for each that is set; the originals keep the global
\* size.
ThmC22_VariantPerPending ==
    /\ []ExpansionIsOnePerPending
    /\ [][ExpansionAppended]_vars

\* two files were expanded with the global width set: two variants with
\* twice that width
WitC22_VariantPerPending ==
    /\ Generate2xEnabled /\ IsSet(settings, "width")
    /\ Len(files) = 4 /\ Len(batch) = 4
    /\ \A i \in {3, 4} :
          /\ files[i].id = [base |-> i - 2, x2 |-> 1]
          /\ files[i].customOptions.width = 2 * settings.width
    /\ \A i \in {1, 2} : "customOptions" \notin DOMAIN files[i]

IsVariant(r) == "customOptions" \in DOMAIN r

NoGlobalSize == ~IsSet(settings, "width") /\ ~IsSet(settings, "height")

TwiceNative ==
    Dimensions(2 * NaturalDimensions.width, 2 * NaturalDimensions.height)

\* the conversion call in progress is the one of a variant
ConvertingVariant ==
    conv.pc # "none" /\ \E i \in 1..Len(batch) : batch[i].id = conv.id /\ IsVariant(batch[i])

ConvertingOriginal ==
    conv.pc # "none" /\ \E i \in 1..Len(batch) : batch[i].id = conv.id /\ ~IsVariant(batch[i])

\* C23: with neither global width nor global height set, the conversion
\* of a 2x variant is called with twice the native width and height of its
\* source and produces an image of that size, and the conversion of an
\* original is called without target size and produces an image of native
\* size (the settings being the same from the start of the batch on).
ThmC23_DeferredDoubling ==
    NoGlobalSize =>
        /\ ConvertingVariant =>
              /\ IsSet(conv.options, "width") /\ IsSet(conv.options, "height")
              /\ conv.options.width = TwiceNative.width
              /\ conv.options.height = TwiceNative.height
        /\ ConvertingOriginal =>
              ~IsSet(conv.options, "width") /\ ~IsSet(conv.options, "height")
        /\ \A i \in 1..Len(files) : files[i].status = "done" =>
              files[i].result.newDimensions =
                  IF IsVariant(files[i]) THEN TwiceNative ELSE NaturalDimensions

\* an original and its variant are both converted, with no global size
WitC23_DeferredDoubling ==
    /\ NoGlobalSize
    /\ \E i, j \in 1..Len(files) :
          /\ ~IsVariant(files[i]) /\ IsVariant(files[j])
          /\ files[j].file = files[i].file
          /\ files[i].status = "done" /\ files[j].status = "done"
          /\ files[i].result.newDimensions = NaturalDimensions
          /\ files[j].result.newDimensions = TwiceNative

\* the global settings overridden field by field by the custom options
Override(global, custom) ==
    [f \in DOMAIN global \cup DOMAIN custom |->
        IF f \in DOMAIN custom THEN custom[f] ELSE global[f]]

EffectiveOf(r) == IF IsVariant(r) THEN Override(settings, r.customOptions) ELSE settings

\* the options of the record the loop is at are the overridden settings;
\* only a variant without any target size has had twice the native size
\* added to them once its source is loaded (C23)
EffectiveOptionsAreOverride ==
    /\ hpc = "load2x" => effectiveSettings = EffectiveOf(batch[idx])
    /\ conv.pc # "none" =>
          LET eff == EffectiveOf(batch[idx])
          IN  /\ conv.id = batch[idx].id
              /\ conv.options = effectiveSettings
              /\ conv.options =
                    IF IsVariant(batch[idx]) /\ ~IsSet(eff, "width") /\ ~IsSet(eff, "height")
                    THEN Override(eff, [width |-> TwiceNative.width,
                                        height |-> TwiceNative.height])
                    ELSE eff

VariantsOf(b) == {j \in 1..Len(files) : files[j].id.base = b /\ files[j].id.x2 > 0}

\* C24: the options a record is converted with are the global settings
\* overridden field by field by its customOptions; a variant's generate2x
\* is false; over any sequence of batches no record is the variant of a
\* variant and no original has more than one variant.
ThmC24_NoRecursiveExpansion ==
    /\ EffectiveOptionsAreOverride
    /\ conv.pc # "none" /\ IsVariant(batch[idx]) => conv.options.generate2x = FALSE
    /\ \A i \in 1..Len(files) :
          /\ files[i].id.x2 <= 1
          /\ IsVariant(files[i]) <=> files[i].id.x2 = 1
          /\ IsVariant(files[i]) => files[i].customOptions.generate2x = FALSE
          /\ Cardinality(VariantsOf(files[i].id.base)) <= 1

\* a second batch with generate2x enabled runs after a first one that made
\* a variant: the variant of the second file is being converted with the
\* doubled width, and the first file still has one variant
WitC24_NoRecursiveExpansion ==
    /\ Generate2xEnabled /\ IsSet(settings, "width")
    /\ Len(files) = 4 /\ Len(batch) = 4
    /\ files[2].id = [base |-> 1, x2 |-> 1] /\ files[2].status \in {"done", "error"}
    /\ files[3].id = [base |-> 2, x2 |-> 0]
    /\ batch[1].status # "processing" /\ batch[2].status # "processing"
    /\ idx = 4 /\ conv.pc # "none"
    /\ conv.options.width = 2 * settings.width
    /\ conv.options.generate2x = FALSE

ConvertedName(r) == generateNewFilename(FileName(r.file), "webp")

\* C25: the output name stored for a converted variant is the converted
\* name with @2x immediately before its extension (img.png converted to
\* webp is stored as img@2x.webp); the output name of a converted
\* non-variant record is the name the conversion produced.
ThmC25_VariantOutputName ==
    \A i \in 1..Len(files) : files[i].status = "done" =>
        LET r == files[i]
            c == ConvertedName(r)
        IN  /\ HasDot(c)
            /\ r.result.newName =
                  IF IsVariant(r)
                  THEN SubSeq(c, 1, LastDot(c) - 1) \o <<"@", "2", "x">>
                           \o SubSeq(c, LastDot(c), Len(c))
                  ELSE c
            /\ (IsVariant(r) /\ FileName(r.file) = <<"i", "m", "g", ".", "p", "n", "g">>)
                  => r.result.newName =
                       <<"i", "m", "g", "@", "2", "x", ".", "w", "e", "b", "p">>

\* img.png and its variant are both converted
WitC25_VariantOutputName ==
    \E i, j \in 1..Len(files) :
        /\ ~IsVariant(files[i]) /\ IsVariant(files[j])
        /\ files[i].status = "done" /\ files[j].status = "done"
        /\ files[i].result.newName = <<"i", "m", "g", ".", "w", "e", "b", "p">>
        /\ files[j].result.newName =
              <<"i", "m", "g", "@", "2", "x", ".", "w", "e", "b", "p">>

----------------------------------------------------------------------------
(* Properties of the removal of records (checked under SpecRemove) *)

\* C26: a conversion is started only for a record that is in the list: a
\* record removed before its conversion started gets none afterwards.
CexC26_RemovedNotConverted ==
    [][CallStarted => conv'.id \in Ids(files')]_vars

\* the record the running conversion call belongs to has been removed
ConvertingRemoved == conv.pc # "none" /\ conv.id \notin Ids(files)

\* this step leaves the list as it is, except for the progress of the
\* record whose conversion the step starts
OnlyNextRecordTouched ==
    /\ Len(files') = Len(files)
    /\ \A i \in 1..Len(files) :
          \/ files'[i] = files[i]
          \/ /\ conv'.pc # "none" /\ conv'.id # conv.id
             /\ files[i].id = conv'.id
             /\ files'[i] = Spread(files[i], [progress |-> files'[i].progress])

\* this step is an event of the running conversion (not a drop, a removal
\* or a click on Convert)
ConversionEvent == conv' # conv \/ callbacks' # callbacks

\* this step handles a worker message whose id is not pending
NonPendingMessage ==
    /\ delivered' = delivered + 1
    /\ events[delivered + 1].type # "crash"
    /\ events[delivered + 1].id \notin DOMAIN tasks

----------------------------------------------------------------------------
(* Properties of getZipPath (checked under SpecZipPath) *)

\* relativePath with backslashes replaced by slashes and without leading slashes
NormalizedPath(p) ==
    LET q == [i \in 1..Len(p) |-> IF p[i] = "\\" THEN "/" ELSE p[i]]
        lead == {k \in 0..Len(q) : \A i \in 1..k : q[i] = "/"}
        n == CHOOSE k \in lead : \A m \in lead : m <= k
    IN  SubSeq(q, n + 1, Len(q))

HasSlash(p) == \E i \in 1..Len(p) : p[i] = "/"

LastSlash(p) == CHOOSE i \in 1..Len(p) : p[i] = "/" /\ \A j \in (i + 1)..Len(p) : p[j] # "/"

\* C28: the entry path is newName alone when relativePath is absent or
\* its normalized form has no slash; otherwise it is the normalized
\* relativePath up to and including its last slash, followed by newName.
ThmC28_ZipPath ==
    pc = "done" =>
        IF "relativePath" \notin DOMAIN image
        THEN zipPath = image.newName
        ELSE LET p == NormalizedPath(image.relativePath)
             IN  IF ~HasSlash(p)
                 THEN zipPath = image.newName
                 ELSE zipPath = SubSeq(p, 1, LastSlash(p)) \o image.newName

\* \d\d/d with newName n.w gives d/d/n.w
WitC28_ZipPath ==
    /\ pc = "done"
    /\ "relativePath" \in DOMAIN image
    /\ image.relativePath = <<"\\", "d", "\\", "d">>
    /\ image.newName = <<"n", ".", "w">>
    /\ zipPath = <<"d", "/", "n", ".", "w">>

----------------------------------------------------------------------------
(* Properties of the pixel pipelines (checked under SpecPixels) *)

\* C30: for the same source and options the worker conversion and the
\* main-thread conversion produce the same output dimensions and choose
\* the same pixel transform.
CexC30_SameAlgorithm ==
    pc = "done" => workerPixels = mainPixels

----------------------------------------------------------------------------
(* Termination of a batch (checked under FairSpec) *)

\* the running conversion attempt can neither resolve nor reject: its
\* request went to a Worker whose context has failed, after that failure
\* was handled (C16)
AttemptNeverSettles ==
    /\ conv.pc = "workerWait"
    /\ worker = "crashed"
    /\ delivered = Len(events)
    /\ conv.task \in DOMAIN tasks

\* no batch is running and no record is left in the status processing
BatchFinished ==
    ~isConverting /\ \A i \in 1..Len(files) : files[i].status # "processing"

\* C29: a running batch eventually finishes unless a conversion attempt
\* never resolves or rejects: isConverting is false again and every record
\* the batch promoted to processing that is in the list is done or error.
ThmC29_BatchTerminates ==
    [](isConverting => <>(BatchFinished \/ AttemptNeverSettles))

\* a batch of two records has finished although the worker context failed
\* during the first: one record is done by the fallback, one is an error
WitC29_BatchTerminates ==
    /\ ~isConverting /\ worker = "crashed"
    /\ Len(files) = 2
    /\ files[1].status = "done" /\ files[1].result.by = "main"
    /\ files[2].status = "error"

----------------------------------------------------------------------------
(* Properties of the whole application, continued (checked under Spec) *)

\* C31: the pending map of the WorkerManager never holds more than one
\* task, and the task it holds is the one of the running conversion call;
\* while a batch runs no other batch is started: the work list stays as
\* it is until the batch ends, and a request is posted only for the
\* record the loop is at.
ThmC31_OneTaskInFlight ==
    /\ [](/\ Cardinality(DOMAIN tasks) <= 1
          /\ \A t \in DOMAIN tasks : conv.pc = "workerWait" /\ conv.task = t
          /\ Len(inbox) + (IF job = WorkerIdle THEN 0 ELSE 1) <= 1)
    /\ [][(isConverting /\ isConverting') => batch' = batch]_vars

\* the second record of a batch is in flight, alone
WitC31_OneTaskInFlight ==
    /\ isConverting /\ idx = 2
    /\ DOMAIN tasks = {2}
    /\ 1 \in DOMAIN settled

\* C33: while a record is processing, the progress values written to it
\* never decrease and lie within 0..100, over the whole conversion call of
\* the record, the fallback to the main thread after a failed worker
\* attempt included.
CexC33_ProgressNonDecreasing ==
    [][\A i \in 1..Len(files) : \A j \in 1..Len(files') :
           (/\ files[i].id = files'[j].id
            /\ files[i].status = "processing"
            /\ files'[j].status = "processing")
               => /\ files'[j].progress >= files[i].progress
                  /\ files'[j].progress \in 0..100]_vars

\* the options of s that the model carries, as handleConvert reads them:
\* width and height as they are, generate2x by its truth
OptionsOf(s) ==
    [width |-> IF "width" \in DOMAIN s THEN <<s.width>> ELSE <<>>,
     height |-> IF "height" \in DOMAIN s THEN <<s.height>> ELSE <<>>,
     generate2x |-> "generate2x" \in DOMAIN s /\ s.generate2x]

\* C35: after every handler has run to completion, state.settings (the
\* options handleConvert uses) equal the current settings of the settings
\* panel; in particular a batch started after the auto-fill that follows
\* the first files uses the auto-filled width and height.  (Checked under
\* Spec2x, where the panel is in use.)
CexC35_SettingsInSync == OptionsOf(settings) = OptionsOf(currentSettings)

----------------------------------------------------------------------------
(* Properties of settings changed during a batch (checked under SpecResize) *)

\* the variant made of batch[i] at the start of the running batch
VariantInBatch(i) ==
    {j \in 1..Len(batch) : /\ batch[j].id = VariantId(batch[i].id)
                           /\ batch[j].status = "processing"}

\* C34: within one batch with generate2x enabled and a global width
\* (height) set at its start, a 2x variant is converted with exactly twice
\* the target width (height) its original is converted with, also when the
\* settings are changed while the batch runs.  A variant is converted with
\* the width (height) of its customOptions (second conjunct), so the
\* original must be converted with half of that (first conjunct).
CexC34_VariantTwiceOriginal ==
    \A f \in {"width", "height"} :
        /\ \A j \in VariantInBatch(idx) :
              (/\ conv.pc # "none"
               /\ ~IsVariant(batch[idx])
               /\ f \in DOMAIN batch[j].customOptions)
                  => /\ IsSet(conv.options, f)
                     /\ batch[j].customOptions[f] = 2 * conv.options[f]
        /\ (/\ conv.pc # "none"
            /\ IsVariant(batch[idx])
            /\ f \in DOMAIN batch[idx].customOptions)
               => conv.options[f] = batch[idx].customOptions[f]

----------------------------------------------------------------------------
(* Properties of the previews (checked under SpecPreview) *)

\* C36: no record still in the list refers to a preview that has been
\* released: removing records, one or many, releases only previews that no
\* remaining record uses, also when a removed record is a 2x variant or
\* the original of one.
CexC36_NoReleasedPreviewInUse ==
    \A i \in 1..Len(files) : files[i].preview \notin revoked

----------------------------------------------------------------------------
(* Properties of terminate() (checked under SpecTerminate) *)

\* the step of a terminate() that finds a worker
TerminateStep == worker # "null" /\ worker' = "null"

\* task t was posted and has left the pending map without being settled
Abandoned(t) == t \in posted /\ t \notin DOMAIN tasks /\ t \notin DOMAIN settled

\* C37: terminate() disposes the worker and empties the pending map, and
\* no promise settles and no continuation runs in that step; the next
\* convertImage that posts a request creates a new worker, which receives
\* it; a task that was pending at terminate() stays unsettled for ever, and
\* the call that waits for it neither returns nor falls back.
ThmC37_Terminate ==
    /\ [][TerminateStep =>
            /\ tasks' = <<>> /\ inbox' = <<>> /\ job' = WorkerIdle
            /\ settled' = settled
            /\ mainVars' = mainVars]_vars
    /\ [][(worker = "null" /\ posted' # posted) =>
            /\ worker' = "running"
            /\ created' = created + 1
            /\ Len(inbox') = 1 /\ posted' = posted \cup {inbox'[1].id}]_vars
    /\ [][\A t \in posted : Abandoned(t) => Abandoned(t)']_vars
    /\ [][(conv.pc = "workerWait" /\ Abandoned(conv.task)) =>
            (conv' = conv /\ isConverting' /\ idx' = idx)]_vars

\* the worker made for the second file after a terminate() was terminated
\* in its turn while the second task was pending: the call still waits
WitC37_Terminate ==
    /\ created = 2
    /\ worker = "null"
    /\ settled = (1 :> <<"resolved">>)
    /\ Abandoned(2)
    /\ conv.pc = "workerWait" /\ conv.task = 2
    /\ isConverting

----------------------------------------------------------------------------
(* Properties of the downloads (checked under SpecDownload) *)

\* the images of the records that have a result
StoredResults == {files[i].result : i \in {j \in 1..Len(files) : "result" \in DOMAIN files[j]}}

\* C38: the ZIP and the download-all made by a click contain exactly the
\* images of the records that have a stored result, also when other
\* records failed, and in the ZIP each of them has an entry of its own: no
\* two different images have the same entry path.
CexC38_DownloadsHoldStoredResults ==
    /\ [][downloads' # downloads =>
            {downloads'[i] : i \in 1..Len(downloads')} = StoredResults]_vars
    /\ [][zipFile' # zipFile =>
            /\ {zipFile'[p] : p \in DOMAIN zipFile'} = StoredResults
            /\ \A a, b \in StoredResults : a # b => getZipPath(a) # getZipPath(b)]_vars

----------------------------------------------------------------------------
(* Properties of calcCropSourceRect (checked under SpecCrop) *)

\* x + y <= w, exactly, for doubles x, y >= 0 and an integer w >= 0
SumWithin(x, y, w) ==
    LET al == Aligned(x, y)
    IN  BCmp(BAdd(al.a, al.b), BShl(IF w = 0 THEN <<>> ELSE <<w>>, al.k)) <= 0

NonNegative(x) == ~x.neg \/ x.n = <<>>

RectInsideSource ==
    /\ NonNegative(cropRect.sx)
    /\ NonNegative(cropRect.sy)
    /\ SumWithin(cropRect.sx, cropRect.sw, cropSource.width)
    /\ SumWithin(cropRect.sy, cropRect.sh, cropSource.height)

RectTouchesSource ==
    \/ cropRect.sx = Zero /\ cropRect.sw = ToDouble(cropSource.width)
    \/ cropRect.sy = Zero /\ cropRect.sh = ToDouble(cropSource.height)

\* C32: for all positive source and target sizes the rectangle returned by
\* calcCropSourceRect lies entirely inside the source (0 <= sx, 0 <= sy,
\* sx + sw <= srcW, sy + sh <= srcH) and spans the source on at least one
\* axis.  (The third part of the claim, the target's aspect ratio, is left
\* out of the formula: sw / sh is a quotient of rounded numbers.)
CexC32_CropInsideSource ==
    pc = "done" => RectInsideSource /\ RectTouchesSource

====
